---- MODULE Spec2Model ----
(***************************************************************************)
(* A model of ParaDance: the scoring engine (Calculator), the weight-space *)
(* builder (construct_weights), the objective (MultipleObjective), the     *)
(* parallel search with its text log, the log-recovery pass, and the JSON  *)
(* formula evaluator.                                                      *)
(*                                                                         *)
(* Numbers.  In the scoring engine feature values, exponents and           *)
(* first-order offsets are small naturals, so that the row-wise products   *)
(* of powers are exact.  Weights suggested by the optimizer are exact      *)
(* rationals <<numerator, denominator>>.  In the JSON formulas a value is  *)
(* a whole number together with the text Python's str() writes for it.     *)
(***************************************************************************)
EXTENDS Integers, Sequences, FiniteSets, TLC

VARIABLES
    \* ---- Calculator (evaluation/calculator.py) ----
    equation_type,      \* Calculator.equation_type
    selected_values,    \* Calculator.selected_values: rows x selected columns
    overall_score,      \* df["overall_score"]: one value per row, or Unset
    score_call,         \* the last get_overall_score call: weights and outcome
    selected_columns,   \* Calculator.selected_columns: the column names
    equation_json,      \* Calculator.equation_json.formula: stages in order
    equation_eval_str,  \* Calculator.equation_eval_str: the free-style formula
    \* ---- MultipleObjective and one trial (optimization/) ----
    ob,                 \* the MultipleObjective's configuration fields
    evaluator_flags,    \* MultipleObjective's seven parallel evaluator lists
    target_columns,
    mask_columns,
    hyperparameters,
    groupbys,
    evaluator_propertys,
    group_weights,
    trial,              \* the last objective(trial) call: what it built
    \* ---- one optimize_run on the shared study (optimize_parallel.py) ----
    study,              \* ob.study: trials told so far and the best of them
    best_params,        \* ob.best_params
    run,                \* where optimize_run is
    \* ---- the parallel workers and their text log (optimization/) ----
    parallel_run,       \* optimize_run's arguments and where it is
    workers,            \* per worker process: position in its trial loop
    storage,            \* paradance_storage.db: the study shared by the workers
    lines,              \* paradance.log, one record per line
    best_trials_csv,    \* paradance_best_trials.csv: Unset or the written rows
    \* ---- one evaluator call on a scored dataframe (evaluation/) ----
    df,                 \* Calculator.df: the rows the evaluator reads
    evaluation          \* the evaluator call: its arguments and its outcome

calcVars == <<equation_type, selected_values, overall_score, score_call,
              selected_columns, equation_json, equation_eval_str>>
evaluatorVars == <<evaluator_flags, target_columns, mask_columns,
                   hyperparameters, groupbys, evaluator_propertys,
                   group_weights>>
obVars == <<ob, evaluatorVars, trial>>
studyVars == <<study, best_params, run>>
logVars == <<parallel_run, workers, storage, lines, best_trials_csv>>

metricVars == <<df, evaluation>>

vars == <<calcVars, obVars, studyVars, logVars, metricVars>>

----------------------------------------------------------------------------
(* Generic helpers                                                         *)

Unset == "unset"
None == "None"
NoFloat == <<0, 0>>       \* None where a float is expected
NoList == <<>>            \* None where a list is expected (no empty list is drawn)
NoTrial == [outcome |-> "never"]

Range(s) == {s[i] : i \in 1..Len(s)}

RECURSIVE SeqSum(_)
SeqSum(s) == IF s = <<>> THEN 0 ELSE s[1] + SeqSum(Tail(s))

RECURSIVE SeqProd(_)
SeqProd(s) == IF s = <<>> THEN 1 ELSE s[1] * SeqProd(Tail(s))

RECURSIVE Pow(_, _)
Pow(b, e) == IF e = 0 THEN 1 ELSE b * Pow(b, e - 1)

SeqsUpTo(S, lo, hi) == UNION {[1..k -> S] : k \in lo..hi}

\* Exact rationals <<numerator, denominator>> in lowest terms, denominator
\* positive: the values of the optimizer's float suggestions.
Abs(x) == IF x < 0 THEN -x ELSE x

RECURSIVE Gcd(_, _)
Gcd(a, b) == IF b = 0 THEN a ELSE Gcd(b, a % b)

Rat(n, d) ==
    LET g == Gcd(Abs(n), Abs(d))
        sgn == IF d < 0 THEN -1 ELSE 1
    IN  <<sgn * (n \div g), sgn * (d \div g)>>

RatAdd(a, b) == Rat(a[1] * b[2] + b[1] * a[2], a[2] * b[2])
RatSub(a, b) == Rat(a[1] * b[2] - b[1] * a[2], a[2] * b[2])
RatMul(a, b) == Rat(a[1] * b[1], a[2] * b[2])
RatDiv(a, b) == Rat(a[1] * b[2], a[2] * b[1])
RatLe(a, b) == a[1] * b[2] <= b[1] * a[2]
RatLt(a, b) == a[1] * b[2] < b[1] * a[2]
RatMax2(a, b) == IF RatLe(a, b) THEN b ELSE a

RECURSIVE RatSum(_)
RatSum(s) == IF s = <<>> THEN <<0, 1>> ELSE RatAdd(s[1], RatSum(Tail(s)))

RatMaxOf(s) == CHOOSE x \in Range(s) : \A y \in Range(s) : RatLe(y, x)
RatMinOf(s) == CHOOSE x \in Range(s) : \A y \in Range(s) : RatLe(x, y)

\* np.power(10, e) for an integer exponent
Pow10(e) == IF e >= 0 THEN <<Pow(10, e), 1>> ELSE <<1, Pow(10, -e)>>

----------------------------------------------------------------------------
(* Calculator.get_overall_score                                            *)

MaxRows == 2          \* rows of the drawn datasets
MaxColumns == 2       \* selected columns
MaxFeature == 2       \* feature values are 1..MaxFeature
MaxExponent == 2      \* exponents and linear weights are 0..MaxExponent
MaxOffset == 1        \* first-order offsets are 0..MaxOffset

NumColumns == Len(selected_values[1])

\* selected_values ** weights_for_equation: numpy broadcasts the weight list
\* over the rows and raises each cell to the weight of its column.
ElementwisePower(values, w) ==
    [r \in 1..Len(values) |-> [c \in 1..Len(w) |-> Pow(values[r][c], w[c])]]

\* np.prod(matrix, axis=1)
ProdAxis1(matrix) == [r \in 1..Len(matrix) |-> SeqProd(matrix[r])]

\* selected_values @ weights_array (weights reshaped to a column)
MatVec(values, w) ==
    [r \in 1..Len(values) |->
        SeqSum([c \in 1..Len(w) |-> values[r][c] * w[c]])]

FirstOrderPowerSwapped(values, powers, first_order_weights) ==
    [r \in 1..Len(values) |->
        [c \in 1..Len(powers) |->
            Pow(1 + powers[c] * values[r][c], first_order_weights[c])]]

\* (1 + first_order_weights * selected_values) ** powers_for_equation
FirstOrderPower(values, powers, first_order_weights) ==
    [r \in 1..Len(values) |->
        [c \in 1..Len(powers) |->
            Pow(1 + first_order_weights[c] * values[r][c], powers[c])]]

\* The branch of get_overall_score that a call takes.
ScoreBranch(eq, n, w) ==
    IF eq = "product" /\ Len(w) = n THEN "product"
    ELSE IF eq = "sum" THEN (IF Len(w) = n THEN "sum" ELSE "raise")
    ELSE IF eq = "free_style" THEN "free_style"
    ELSE IF eq = "json" THEN "json"
    ELSE IF Len(w) = 2 * n THEN "first_order"
    ELSE "none"

\* The overall_score column after get_overall_score(w), given the old column.
ScoreColumn(eq, values, w, old) ==
    LET n == Len(values[1])
        branch == ScoreBranch(eq, n, w)
    IN  CASE branch = "product" -> ProdAxis1(ElementwisePower(values, w))
          [] branch = "sum" -> MatVec(values, w)
          [] branch = "first_order" ->
                ProdAxis1(FirstOrderPower(values, SubSeq(w, 1, n),
                                          SubSeq(w, n + 1, 2 * n)))
          [] OTHER -> old

ExampleDataset == << <<1>>, <<2>>, <<3>>, <<4>> >>

\* The drawn datasets: the example column, and for every first row over
\* 1..MaxFeature the tables of 1..MaxRows rows whose later rows shift the
\* first one cyclically through the feature values.
ShiftedRows(row, k) ==
    [i \in 1..k |->
        [c \in 1..Len(row) |-> ((row[c] + i - 2) % MaxFeature) + 1]]

Datasets ==
    {ExampleDataset} \cup
    {ShiftedRows(row, k) :
        row \in SeqsUpTo(1..MaxFeature, 1, MaxColumns), k \in 1..MaxRows}

\* The drawn weight vectors for n columns: every vector of n exponents,
\* every vector [n exponents ; n offsets], and two vectors of other lengths.
WeightInputs(n) ==
    [1..n -> 0..MaxExponent]
    \cup {p \o o : p \in [1..n -> 0..MaxExponent], o \in [1..n -> 0..MaxOffset]}
    \cup {[i \in 1..(n + 2) |-> 1], [i \in 1..(2 * n + 1) |-> 1]}

\* a text is the sequence of its characters
Digits == <<"0", "1", "2", "3", "4", "5", "6", "7", "8", "9">>

RECURSIVE NatStr(_)
NatStr(n) == IF n < 10 THEN <<Digits[n + 1]>> ELSE NatStr(n \div 10) \o <<Digits[(n % 10) + 1]>>

\* the drawn column names x1, x2, ...
ColumnNames(n) == [c \in 1..n |-> <<"x">> \o NatStr(c)]

CalcIdle ==
    /\ equation_type = None
    /\ selected_values = <<>>
    /\ overall_score = Unset
    /\ score_call = [weights |-> <<>>, outcome |-> "never"]
    /\ selected_columns = <<>>
    /\ equation_json = <<>>
    /\ equation_eval_str = None

NoEvaluators ==
    /\ evaluator_flags = <<>>
    /\ target_columns = <<>>
    /\ mask_columns = <<>>
    /\ hyperparameters = <<>>
    /\ groupbys = <<>>
    /\ evaluator_propertys = <<>>
    /\ group_weights = <<>>

ObIdle ==
    /\ ob = [equation_type |-> None]
    /\ NoEvaluators
    /\ trial = NoTrial

StudyIdle ==
    /\ study = [n_trials |-> 0, told |-> 0, best |-> NoTrial]
    /\ best_params = <<>>
    /\ run = "idle"

MetricIdle ==
    /\ df = <<>>
    /\ evaluation = [outcome |-> "never"]

LogIdle ==
    /\ parallel_run = [state |-> "idle"]
    /\ workers = <<>>
    /\ storage = [next_number |-> 0, best |-> NoTrial]
    /\ lines = <<>>
    /\ best_trials_csv = Unset

CalcInit ==
    /\ ObIdle
    /\ StudyIdle
    /\ LogIdle
    /\ MetricIdle
    /\ equation_type \in {"product", "sum"}
    /\ selected_values \in Datasets
    /\ overall_score = Unset
    /\ score_call = [weights |-> <<>>, outcome |-> "never"]
    /\ selected_columns = ColumnNames(Len(selected_values[1]))
    /\ equation_json = <<>>
    /\ equation_eval_str = None

GetOverallScore(w) ==
    /\ LET branch == ScoreBranch(equation_type, NumColumns, w)
       IN  /\ overall_score' =
                 IF branch = "raise" THEN overall_score
                 ELSE ScoreColumn(equation_type, selected_values, w,
                                  overall_score)
           /\ score_call' =
                 [weights |-> w,
                  outcome |-> IF branch = "raise" THEN "raised"
                                                  ELSE "returned"]
    /\ UNCHANGED <<equation_type, selected_values, selected_columns,
                   equation_json, equation_eval_str, obVars, studyVars, logVars,
                   metricVars>>

\* One call per drawn calculator.
CalcNext ==
    /\ score_call.outcome = "never"
    /\ \E w \in WeightInputs(NumColumns) : GetOverallScore(w)

SpecCalc == CalcInit /\ [][CalcNext]_vars

\* The row-wise formulas of the claim, written index by index.
RECURSIVE PowerProduct(_, _, _)
PowerProduct(row, w, i) ==
    IF i = 0 THEN 1
    ELSE PowerProduct(row, w, i - 1) * Pow(row[i], w[i])

RECURSIVE OffsetPowerProduct(_, _, _, _)
OffsetPowerProduct(row, w, n, i) ==
    IF i = 0 THEN 1
    ELSE OffsetPowerProduct(row, w, n, i - 1)
            * Pow(1 + w[n + i] * row[i], w[i])

\* C1: for equation type 'product' with n selected columns,
\* get_overall_score(w) sets every row's overall_score to the product of
\* feature_i ^ w_i when len(w) = n, and to the product of
\* (1 + w_{n+i} * feature_i) ^ w_i when len(w) = 2n; one feature column
\* [1,2,3,4] with weights [1] gives [1,2,3,4].
C1_ProductScore ==
    (equation_type = "product" /\ score_call.outcome = "returned") =>
        LET w == score_call.weights
            n == NumColumns
        IN  /\ Len(w) = n =>
                  \A r \in 1..Len(selected_values) :
                      overall_score[r] = PowerProduct(selected_values[r], w, n)
            /\ Len(w) = 2 * n =>
                  \A r \in 1..Len(selected_values) :
                      overall_score[r] =
                          OffsetPowerProduct(selected_values[r], w, n, n)
            /\ (selected_values = ExampleDataset /\ w = <<1>>) =>
                  overall_score = <<1, 2, 3, 4>>

\* A product calculator with two columns scored a 2n-long vector whose
\* exponents and offsets differ.
C1_Witness ==
    /\ equation_type = "product"
    /\ score_call.outcome = "returned"
    /\ NumColumns = 2
    /\ score_call.weights = <<2, 1, 1, 0>>
    /\ selected_values[1] = <<2, 1>>
    /\ overall_score[1] = 9

----------------------------------------------------------------------------
(* construct_weights: the weight-space builder                             *)

MaxWeights == 2       \* weights_num is 1..MaxWeights

EquationTypes == {"product", "sum", "free_style", "json", "log_pca"}

\* The floats a suggestion may return besides the two ends of its interval.
GridPoints == {<<1, 2>>}

ValueScales == {-1, 0}            \* drawn Calculator.value_scales entries
ScaleRatios == {NoFloat, <<2, 1>>}   \* drawn max_min_scale_ratio values
FreeStyleBoundKinds == {"floats", "lists", "mixed"}

\* trial.suggest_float(name, low, high): any float of [low, high]; the
\* empty set stands for the ValueError of low > high.
SuggestFloat(low, high) ==
    IF RatLt(high, low) THEN {}
    ELSE {low, high} \cup {g \in GridPoints : RatLe(low, g) /\ RatLe(g, high)}

\* A run of suggestions with fixed bounds: one float per dimension.
IndependentDraws(lows, highs) ==
    LET n == Len(lows)
        all == UNION {SuggestFloat(lows[i], highs[i]) : i \in 1..n}
    IN  {f \in [1..n -> all] :
            \A i \in 1..n : f[i] \in SuggestFloat(lows[i], highs[i])}

\* The simplex loop: w_po_1 .. w_po_{steps}, each in
\* [0, max(1 - sum(power_weights), 0.1)].
RECURSIVE DirichletDraws(_, _)
DirichletDraws(prefixes, steps) ==
    IF steps = 0 THEN prefixes
    ELSE DirichletDraws(
            UNION {{Append(p, v) :
                        v \in SuggestFloat(<<0, 1>>,
                                 RatMax2(RatSub(<<1, 1>>, RatSum(p)), <<1, 10>>))} :
                   p \in prefixes},
            steps - 1)

Named(prefix, values) == [i \in 1..Len(values) |-> <<prefix, i, values[i]>>]

Scalar(bound, n) == [i \in 1..n |-> bound]

\* construct_power_weights: the set of [params, weights] it can return.
ConstructPowerWeights(o) ==
    LET n == o.weights_num
        simplex ==
            IF o.dirichlet
            THEN {[params |-> Named("w_po_", p),
                   weights |-> Append(p, RatSub(<<1, 1>>, RatSum(p)))] :
                        p \in DirichletDraws({<<>>}, n - 1)}
            ELSE {[params |-> <<>>, weights |-> <<>>]}
        free == IndependentDraws(Scalar(o.power_lower_bound, n),
                                 Scalar(o.power_upper_bound, n))
    IN  {[params |-> s.params \o Named("w", f),
          weights |-> s.weights \o f] : s \in simplex, f \in free}

\* The optional rescaling of construct_first_order_weights.
RescaleFirstOrder(first_order_weights, value_scales, max_min_scale_ratio) ==
    LET scales_with_weights ==
            [i \in 1..Len(first_order_weights) |->
                RatMul(first_order_weights[i], Pow10(-value_scales[i]))]
        scales_with_weights_ratio ==
            RatDiv(RatMaxOf(scales_with_weights),
                   RatAdd(RatMinOf(scales_with_weights), <<1, 1000000>>))
    IN  [i \in 1..Len(first_order_weights) |->
            RatDiv(RatMul(first_order_weights[i], max_min_scale_ratio),
                   scales_with_weights_ratio)]

\* construct_first_order_weights
ConstructFirstOrderWeights(o) ==
    LET n == o.weights_num
        log == RatLe(<<0, 1>>, o.first_order_lower_bound)
    IN  IF o.equation_type # "log_pca" /\ o.first_order_with_scales
        THEN {[params |-> Named("w_fo_", f),
               weights |->
                   IF o.max_min_scale_ratio # NoFloat
                   THEN RescaleFirstOrder(f, o.value_scales,
                                          o.max_min_scale_ratio)
                   ELSE f] :
                f \in IndependentDraws(
                    [i \in 1..n |->
                        Pow10(o.value_scales[i] - o.first_order_scale_lower_bound)],
                    [i \in 1..n |->
                        Pow10(o.value_scales[i] + o.first_order_scale_upper_bound)])}
        ELSE IF log /\ RatLe(o.first_order_lower_bound, <<0, 1>>)
        THEN {}     \* a log-uniform suggestion needs low > 0
        ELSE {[params |-> Named("w_fo_", f), weights |-> f] :
                f \in IndependentDraws(Scalar(o.first_order_lower_bound, n),
                                       Scalar(o.first_order_upper_bound, n))}

\* construct_free_style_weights; the empty set is a raised ValueError.
ConstructFreeStyleWeights(o) ==
    LET n == o.weights_num
        lower == IF o.base_weights # NoList
                 THEN [i \in 1..Len(o.base_weights) |->
                         RatMul(RatSub(<<1, 1>>, o.base_weights_offset_ratio),
                                o.base_weights[i])]
                 ELSE o.free_style_lower_bound
        upper == IF o.base_weights # NoList
                 THEN [i \in 1..Len(o.base_weights) |->
                         RatMul(RatAdd(<<1, 1>>, o.base_weights_offset_ratio),
                                o.base_weights[i])]
                 ELSE o.free_style_upper_bound
        kind == IF o.base_weights # NoList THEN "lists" ELSE o.free_style_bounds
        draws ==
            CASE kind = "lists" -> IndependentDraws(lower, upper)
              [] kind = "floats" ->
                    IndependentDraws(Scalar(lower[1], n), Scalar(upper[1], n))
              [] OTHER -> {}
    IN  {[params |-> Named("w", f), weights |-> f] : f \in draws}

\* construct_log_pca_weights
ConstructLogPcaWeights(o) ==
    {[params |-> Named("w", f), weights |-> f] :
        f \in IndependentDraws(Scalar(o.pca_importance_lower_bound, o.weights_num),
                               Scalar(o.pca_importance_upper_bound, o.weights_num))}

\* The branch of construct_weights' dispatch.
WeightPath(o) ==
    IF o.equation_type = "sum" THEN "first_order"
    ELSE IF o.equation_type \in {"free_style", "json"} THEN "free_style"
    ELSE IF o.equation_type = "log_pca" THEN "log_pca"
    ELSE IF o.equation_type = "product" /\ o.first_order
         THEN "power+first_order"
    ELSE IF ~o.first_order THEN "power"
    ELSE "none"

\* construct_weights: every [params, weights, power, first_order] a trial
\* can build; power and first_order are the two builders' return values.
ConstructWeights(o) ==
    LET path == WeightPath(o)
        Only(kind, built) ==
            {[params |-> b.params, weights |-> b.weights,
              power |-> IF kind = "power" THEN b.weights ELSE <<>>,
              first_order |-> IF kind = "first_order" THEN b.weights ELSE <<>>] :
                b \in built}
    IN  CASE path = "first_order" ->
                Only("first_order", ConstructFirstOrderWeights(o))
          [] path = "free_style" -> Only("free", ConstructFreeStyleWeights(o))
          [] path = "log_pca" -> Only("free", ConstructLogPcaWeights(o))
          [] path = "power+first_order" ->
                {[params |-> p.params \o f.params,
                  weights |-> p.weights \o f.weights,
                  power |-> p.weights, first_order |-> f.weights] :
                    p \in ConstructPowerWeights(o),
                    f \in ConstructFirstOrderWeights(o)}
          [] path = "power" -> Only("power", ConstructPowerWeights(o))
          [] OTHER -> {[params |-> <<>>, weights |-> <<>>,
                        power |-> <<>>, first_order |-> <<>>]}

----------------------------------------------------------------------------
(* MultipleObjective: __init__, add_evaluator, objective                   *)

MaxEvaluators == 2    \* add_evaluator calls before the first trial

\* MultipleObjective.__init__ with the defaults of MultipleObjectiveConfig,
\* for a calculator of the given equation type and number of columns.
DefaultObjective(eq, n) ==
    [equation_type |-> eq,
     direction |-> "minimize",
     first_order |-> FALSE, power |-> TRUE, dirichlet |-> FALSE,
     weights_num |-> n,
     first_order_with_scales |-> TRUE,
     first_order_lower_bound |-> <<1, 1000>>,
     first_order_upper_bound |-> <<1000000, 1>>,
     \* a float bound is held as a one-element list; free_style_bounds
     \* tells which of the two bounds are floats and which are lists
     free_style_bounds |-> "floats",
     free_style_lower_bound |-> << <<1, 1000>> >>,
     free_style_upper_bound |-> << <<1000000, 1>> >>,
     base_weights |-> NoList,
     base_weights_offset_ratio |-> <<1, 10>>,
     max_min_scale_ratio |-> NoFloat,
     first_order_scale_upper_bound |-> 1,
     first_order_scale_lower_bound |-> 1,
     power_lower_bound |-> <<-1, 1>>,
     power_upper_bound |-> <<1, 1>>,
     pca_importance_lower_bound |-> <<0, 1>>,
     pca_importance_upper_bound |-> <<10, 1>>,
     value_scales |-> [i \in 1..n |-> 0]]

\* The same objective with the three flags set.
WithFlags(o, first_order, power, dirichlet) ==
    [o EXCEPT !.first_order = first_order, !.power = power,
              !.dirichlet = dirichlet]

\* The first-order settings that matter when first-order weights are built.
FirstOrderVariants(o) ==
    {[o EXCEPT !.first_order_with_scales = FALSE]}
    \cup {[o EXCEPT !.value_scales = vs, !.max_min_scale_ratio = r] :
            vs \in [1..o.weights_num -> ValueScales], r \in ScaleRatios}

\* The free-style bound settings: two floats, two lists, one of each, or
\* bounds derived from base_weights.
FreeStyleVariants(o) ==
    LET n == o.weights_num
    IN  {o,
         [o EXCEPT !.free_style_bounds = "lists",
                   !.free_style_lower_bound = [i \in 1..n |-> <<0, 1>>],
                   !.free_style_upper_bound = [i \in 1..n |-> <<1, 1>>]],
         [o EXCEPT !.free_style_bounds = "mixed",
                   !.free_style_lower_bound = [i \in 1..n |-> <<0, 1>>]],
         [o EXCEPT !.base_weights = [i \in 1..n |-> <<1, 1>>]]}

ObjectiveConfigs ==
    UNION {
        LET o == WithFlags(DefaultObjective(eq, n), fo, po, di)
        IN  IF WeightPath(o) \in {"first_order", "power+first_order"}
            THEN FirstOrderVariants(o)
            ELSE IF WeightPath(o) = "free_style" THEN FreeStyleVariants(o)
            ELSE {o} :
        eq \in EquationTypes, n \in 1..MaxWeights,
        fo \in BOOLEAN, po \in BOOLEAN, di \in BOOLEAN}

EvaluatorFlags ==
    {"pearson", "portfolio", "distinct_count_portfolio", "top_coverage",
     "distinct_top_coverage", "wuauc", "auc", "woauc", "logmse",
     "neg_rank_ratio", "inverse_pairs", "tau"}

\* What the call that evaluate_targets makes for a flag does, by the
\* signature of the function bound to it: "TypeError" when the keyword
\* arguments passed are not the ones the function takes, "skipped" when no
\* branch of the if/elif chain names the flag; calculate_tau called with a
\* group column ends in "UnboundLocalError".
EvaluatorCall(flag, groupby) ==
    IF flag \notin EvaluatorFlags THEN "skipped"
    ELSE IF flag \in {"distinct_count_portfolio", "woauc", "neg_rank_ratio",
                      "inverse_pairs"}
         THEN "TypeError"
    ELSE IF flag = "tau" /\ groupby # None THEN "UnboundLocalError"
    ELSE "value"

\* The value of one evaluator on the scored dataset.  The metrics are
\* functions of the call's bound arguments and the scores; here a value is
\* identified by the arguments it was computed from.
MetricValue(flag, column, mask, hyper, prop, groupby, gweights) ==
    [flag |-> flag, target_column |-> column, mask_column |-> mask,
     hyperparameter |-> hyper, groupby |-> groupby]

\* evaluate_targets over the first k entries of the zipped lists:
\* the targets list, or "raised".
RECURSIVE EvaluateTargets(_, _, _, _, _, _, _, _)
EvaluateTargets(flags, masks, hypers, props, groups, columns, gweights, k) ==
    IF k = 0 THEN <<>>
    ELSE LET before == EvaluateTargets(flags, masks, hypers, props, groups,
                                       columns, gweights, k - 1)
             call == EvaluatorCall(flags[k], groups[k])
         IN  IF before = "raised" \/ call \in {"TypeError", "UnboundLocalError"}
             THEN "raised"
             ELSE IF call = "skipped" THEN before
             ELSE Append(before,
                         MetricValue(flags[k], columns[k], masks[k], hypers[k],
                                     props[k], groups[k], gweights[k]))

ZipLength ==
    LET lens == {Len(evaluator_flags), Len(mask_columns), Len(hyperparameters),
                 Len(evaluator_propertys), Len(groupbys), Len(target_columns),
                 Len(group_weights)}
    IN  CHOOSE m \in lens : \A l \in lens : m <= l

Results == 0..1       \* the drawn values of the combining formula

\* MultipleObjective.objective(trial): construct_weights,
\* evaluate_custom_weights (get_overall_score, evaluate_targets), the
\* combining formula.  The three log lines are modelled with the workers.
ObjectiveOutcomes ==
    IF ConstructWeights(ob) = {}
    THEN {[outcome |-> "raised", path |-> WeightPath(ob)]}
    ELSE {LET branch ==
                  IF ob.equation_type = "log_pca" THEN "delegated"
                  ELSE ScoreBranch(ob.equation_type, ob.weights_num, b.weights)
              targets ==
                  EvaluateTargets(evaluator_flags, mask_columns,
                                  hyperparameters, evaluator_propertys,
                                  groupbys, target_columns, group_weights,
                                  ZipLength)
          IN  [outcome |-> IF branch = "raise" \/ targets = "raised"
                           THEN "raised" ELSE "returned",
               path |-> WeightPath(ob),
               params |-> b.params,
               weights |-> b.weights,
               power |-> b.power,
               first_order |-> b.first_order,
               branch |-> branch,
               targets |-> IF branch = "raise" THEN "raised" ELSE targets,
               result |-> result] :
            b \in ConstructWeights(ob), result \in Results}

Objective ==
    /\ trial = NoTrial
    /\ \E t \in ObjectiveOutcomes : trial' = t
    /\ UNCHANGED <<calcVars, ob, evaluatorVars, studyVars, logVars, metricVars>>

WeightsInit ==
    /\ CalcIdle
    /\ StudyIdle
    /\ LogIdle
    /\ MetricIdle
    /\ ob \in ObjectiveConfigs
    /\ NoEvaluators
    /\ trial = NoTrial

WeightsNext == Objective

SpecWeights == WeightsInit /\ [][WeightsNext]_vars

----------------------------------------------------------------------------
(* optimize_run without parallel workers: the trials against the study,    *)
(* then the best parameters read back                                      *)

MaxTrials == 2        \* n_trials is 1..MaxTrials

\* One objective per weight-construction path.
StudyConfigs ==
    UNION {
        {[o EXCEPT !.direction = d] :
            o \in {WithFlags(DefaultObjective("product", n), FALSE, TRUE, TRUE),
                   WithFlags(DefaultObjective("product", n), FALSE, TRUE, FALSE),
                   [DefaultObjective("sum", n)
                        EXCEPT !.max_min_scale_ratio = <<2, 1>>],
                   DefaultObjective("free_style", n)}} :
        n \in 1..MaxWeights, d \in {"minimize", "maximize"}}

\* study.tell: the trial is stored; it becomes the best trial when its
\* value is strictly better than the best one's in the study's direction.
Tell(st, t) ==
    LET number == st.told
        better ==
            \/ st.best = NoTrial
            \/ ob.direction = "minimize" /\ t.result < st.best.value
            \/ ob.direction = "maximize" /\ t.result > st.best.value
    IN  [st EXCEPT !.told = number + 1,
                   !.best = IF better
                            THEN [number |-> number, value |-> t.result,
                                  params |-> t.params, weights |-> t.weights]
                            ELSE @]

\* One iteration of study.optimize(self.objective, n_trials): the objective
\* runs and its value is told to the study; an exception ends the run.
OptimizeTrial ==
    /\ run = "running"
    /\ study.told < study.n_trials
    /\ \E t \in ObjectiveOutcomes :
          /\ trial' = t
          /\ IF t.outcome = "raised"
             THEN run' = "raised" /\ UNCHANGED study
             ELSE study' = Tell(study, t) /\ UNCHANGED run
    /\ UNCHANGED <<calcVars, ob, evaluatorVars, best_params, logVars, metricVars>>

\* list(ob.study.best_params.values())
BestParamsValues(st) == [i \in 1..Len(st.best.params) |-> st.best.params[i][3]]

\* optimize_run after the trials:
\* ob.best_params = np.asarray(list(ob.study.best_params.values()))
ReadBestParams ==
    /\ run = "running"
    /\ study.told = study.n_trials
    /\ best_params' = BestParamsValues(study)
    /\ run' = "returned"
    /\ UNCHANGED <<calcVars, obVars, study, logVars, metricVars>>

StudyInit ==
    /\ CalcIdle
    /\ ob \in StudyConfigs
    /\ NoEvaluators
    /\ trial = NoTrial
    /\ \E n \in 1..MaxTrials :
          study = [n_trials |-> n, told |-> 0, best |-> NoTrial]
    /\ best_params = [i \in 1..ob.weights_num |-> <<0, 1>>]
    /\ run = "running"
    /\ LogIdle
    /\ MetricIdle

StudyNext == OptimizeTrial \/ ReadBestParams

SpecStudy == StudyInit /\ [][StudyNext]_vars

\* C8: after optimize_run returns, ob.best_params is, element for element
\* and with the same length, the weight vector the best trial passed to
\* get_overall_score, for every weight-construction path.
C8_BestParamsAreBestWeights ==
    run = "returned" => best_params = study.best.weights

----------------------------------------------------------------------------
(* Building an objective: add_evaluator calls, then the first trial        *)

\* The drawn flags: the twelve of evaluate_targets' if/elif chain and
\* "auc_triple_parameters", a BaseCalculator metric the chain does not name.
RegisteredFlags == EvaluatorFlags \cup {"auc_triple_parameters"}

TargetColumns == {"label", "duration"}

\* The drawn optional arguments of add_evaluator: all omitted, or all given.
OptionalArguments ==
    {[mask_column |-> None, hyperparameter |-> None,
      evaluator_property |-> None, groupby |-> None,
      weights_for_groups |-> None],
     [mask_column |-> "mask", hyperparameter |-> "0.95",
      evaluator_property |-> "count", groupby |-> "user",
      weights_for_groups |-> "counts"]}

\* MultipleObjective.add_evaluator
AddEvaluator(flag, target_column, opt) ==
    /\ evaluator_flags' = Append(evaluator_flags, flag)
    /\ target_columns' = Append(target_columns, target_column)
    /\ mask_columns' =
          IF opt.mask_column # None THEN Append(mask_columns, opt.mask_column)
          ELSE Append(mask_columns, None)
    /\ hyperparameters' =
          IF opt.hyperparameter # None
          THEN Append(hyperparameters, opt.hyperparameter)
          ELSE Append(hyperparameters, None)
    /\ groupbys' =
          IF opt.groupby # None THEN Append(groupbys, opt.groupby)
          ELSE Append(groupbys, None)
    /\ evaluator_propertys' =
          IF opt.evaluator_property # None
          THEN Append(evaluator_propertys, opt.evaluator_property)
          ELSE Append(evaluator_propertys, None)
    /\ group_weights' =
          IF opt.weights_for_groups # None
          THEN Append(group_weights, opt.weights_for_groups)
          ELSE Append(group_weights, None)
    /\ UNCHANGED <<calcVars, ob, trial, studyVars, logVars, metricVars>>

BuildInit ==
    /\ CalcIdle
    /\ StudyIdle
    /\ LogIdle
    /\ MetricIdle
    /\ ob = DefaultObjective("product", 1)
    /\ NoEvaluators
    /\ trial = NoTrial

\* Evaluators are registered while the objective is being built, that is
\* before its first trial.
BuildNext ==
    \/ /\ trial = NoTrial
       /\ Len(evaluator_flags) < MaxEvaluators
       /\ \E flag \in RegisteredFlags, column \in TargetColumns,
             opt \in OptionalArguments : AddEvaluator(flag, column, opt)
    \/ Objective

SpecBuild == BuildInit /\ [][BuildNext]_vars

\* C4: after any sequence of add_evaluator calls followed by an
\* objective(trial) call, targets has exactly one entry per registered
\* evaluator and targets[i] is the value of the i-th registered evaluator,
\* whatever flags were registered.
C4_OneTargetPerEvaluator ==
    trial # NoTrial =>
        /\ trial.outcome = "returned"
        /\ Len(trial.targets) = Len(evaluator_flags)
        /\ \A i \in 1..Len(evaluator_flags) :
              trial.targets[i] =
                  MetricValue(evaluator_flags[i], target_columns[i],
                              mask_columns[i], hyperparameters[i],
                              evaluator_propertys[i], groupbys[i],
                              group_weights[i])

TrialBuiltWeights == "weights" \in DOMAIN trial

\* C2: every weight vector produced by the simplex (dirichlet) power-weight
\* builder sums to 1 and has every component in [0,1], whatever values the
\* optimizer suggests within the requested bounds.
C2_SimplexVector ==
    (TrialBuiltWeights /\ ob.dirichlet
        /\ trial.path \in {"power", "power+first_order"}) =>
        /\ RatSum(trial.power) = <<1, 1>>
        /\ \A i \in 1..Len(trial.power) :
              RatLe(<<0, 1>>, trial.power[i]) /\ RatLe(trial.power[i], <<1, 1>>)

\* C3: construct_weights takes exactly one construction path per trial and
\* returns a vector laid out as get_overall_score splits it: n powers for
\* product without first-order, [n powers ; n first-order offsets] for
\* product with first-order (n entries for sum).
C3_LayoutMatchesScoring ==
    TrialBuiltWeights =>
        LET n == ob.weights_num
            w == trial.weights
        IN  /\ trial.path \in {"first_order", "free_style", "log_pca",
                               "power+first_order", "power"}
            /\ (ob.equation_type = "product" /\ ~ob.first_order) =>
                  /\ Len(w) = n
                  /\ trial.branch = "product"
            /\ (ob.equation_type = "product" /\ ob.first_order) =>
                  /\ Len(w) = 2 * n
                  /\ trial.branch = "first_order"
                  /\ SubSeq(w, 1, n) = trial.power
                  /\ SubSeq(w, n + 1, 2 * n) = trial.first_order
            /\ ob.equation_type = "sum" => Len(w) = n /\ trial.branch = "sum"


----------------------------------------------------------------------------
(* The parallel search and its text log                                    *)
(* (optimization/optimize_parallel.py, base.py, multiple_objective.py,     *)
(*  save_study.py)                                                         *)
(*                                                                         *)
(* optimize_run starts n_cores worker processes; each runs                 *)
(* ob.optimize(unit_n_trials), whose build_logger() is called without a    *)
(* process id, so every worker appends to the one file paradance.log.      *)
(* A trial is asked from the shared storage, objective() writes its three  *)
(* lines with three logger.info calls, the value is told to the storage    *)
(* and the library logs "Trial N finished with value: ... Best is trial M".*)
(* A line is one record: kind, and the fields its text carries.  The       *)
(* targets and the weights of trial n are the lists <<"t", n>> and         *)
(* <<"w", n>>, so that a recovered list shows which trial wrote it.        *)

NoNumber == -1

ResultLine(n, r) == [kind |-> "result", trial |-> n, value |-> <<r>>, best |-> NoNumber]

TargetsLine(n) == [kind |-> "targets", trial |-> NoNumber, value |-> <<"t", n>>, best |-> NoNumber]

WeightsLine(n) == [kind |-> "weights", trial |-> NoNumber, value |-> <<"w", n>>, best |-> NoNumber]

CompletedLine(n, r, m) == [kind |-> "completed", trial |-> n, value |-> <<r>>, best |-> m]

Sequential == 0       \* parallel=False; parallel=n is the integer n

Parallels == {Sequential, 2}    \* the drawn values of optimize_run's parallel

NumWorkers(parallel) == IF parallel = Sequential THEN 1 ELSE parallel

UnitTrials(n_trials, parallel) == IF parallel = Sequential THEN n_trials ELSE n_trials \div parallel

Better(direction, a, b) == IF direction = "maximize" THEN a > b ELSE a < b

StorageTell(st, direction, n, r) == IF st.best = NoTrial \/ Better(direction, r, st.best.value) THEN [st EXCEPT !.best = [outcome |-> "complete", number |-> n, value |-> r]] ELSE st

\* study.ask(): the storage hands out the next trial number
Ask(w) ==
    /\ parallel_run.state = "running"
    /\ workers[w].pc = "ask"
    /\ workers[w].left > 0
    /\ workers' = [workers EXCEPT ![w].pc = "log_result",
                                  ![w].number = storage.next_number]
    /\ storage' = [storage EXCEPT !.next_number = @ + 1]
    /\ UNCHANGED <<parallel_run, lines, best_trials_csv>>

\* objective(): logger.info(f"Trial {number} finished with result: {result}")
LogResult(w) ==
    /\ workers[w].pc = "log_result"
    /\ \E r \in Results :
          /\ workers' = [workers EXCEPT ![w].pc = "log_targets", ![w].result = r]
          /\ lines' = Append(lines, ResultLine(workers[w].number, r))
    /\ UNCHANGED <<parallel_run, storage, best_trials_csv>>

\* objective(): logger.info(f"targets: {targets}")
LogTargets(w) ==
    /\ workers[w].pc = "log_targets"
    /\ workers' = [workers EXCEPT ![w].pc = "log_weights"]
    /\ lines' = Append(lines, TargetsLine(workers[w].number))
    /\ UNCHANGED <<parallel_run, storage, best_trials_csv>>

\* objective(): logger.info(f"weights: {weights}")
LogWeights(w) ==
    /\ workers[w].pc = "log_weights"
    /\ workers' = [workers EXCEPT ![w].pc = "tell"]
    /\ lines' = Append(lines, WeightsLine(workers[w].number))
    /\ UNCHANGED <<parallel_run, storage, best_trials_csv>>

\* study.optimize: the returned value is told to the storage
TellTrial(w) ==
    /\ workers[w].pc = "tell"
    /\ workers' = [workers EXCEPT ![w].pc = "log_completed"]
    /\ storage' = StorageTell(storage, parallel_run.direction,
                              workers[w].number, workers[w].result)
    /\ UNCHANGED <<parallel_run, lines, best_trials_csv>>

\* study.optimize: the library reads the best trial and logs the completion
LogCompleted(w) ==
    /\ workers[w].pc = "log_completed"
    /\ lines' = Append(lines, CompletedLine(workers[w].number, workers[w].result,
                                            storage.best.number))
    /\ workers' = [workers EXCEPT ![w].left = @ - 1,
                                  ![w].pc = IF workers[w].left = 1 THEN "done" ELSE "ask"]
    /\ UNCHANGED <<parallel_run, storage, best_trials_csv>>


\* get_best_trials, lines 38-39 and 44-45: the first line at or after i that
\* holds the keyword; 0 stands for the IndexError of running past the end
RECURSIVE FirstLine(_, _, _)
FirstLine(ls, i, kind) == IF i > Len(ls) THEN 0 ELSE IF ls[i].kind = kind THEN i ELSE FirstLine(ls, i + 1, kind)

\* the text of a numeric field float() cannot parse
Unparsable == <<"?", "?", "?">>

\* float(val) succeeds on every value the objective logged
Parsable(value) == Len(value) < 3

\* get_best_trials, lines 35-68: the event read from result line j; float()
\* of the result is outside the try block, of targets and weights inside
ReadEvent(ls, j, trial_number) ==
    LET t == FirstLine(ls, j + 1, "targets")
        w == IF t = 0 THEN 0 ELSE FirstLine(ls, t, "weights")
    IN  IF t = 0 \/ w = 0
        THEN [status |-> "IndexError", data |-> <<>>]
        ELSE IF ~Parsable(ls[j].value)
        THEN [status |-> "ValueError", data |-> <<>>]
        ELSE IF ~Parsable(ls[t].value) \/ ~Parsable(ls[w].value)
        THEN [status |-> "ok", data |-> <<>>]
        ELSE [status |-> "ok",
              data |-> << [result |-> ls[j].value[1], trial |-> trial_number,
                           targets |-> ls[t].value, weights |-> ls[w].value] >>]

\* get_best_trials, lines 33-69: the walk back from the marker line to the
\* lines "Trial {trial_number} finished with result:"; save_study's copy
\* breaks at the first one (stop), the listener's copy walks on to line 0
RECURSIVE ScanBack(_, _, _, _)
ScanBack(ls, sub_idx, trial_number, stop) ==
    IF sub_idx < 1 THEN [status |-> "ok", data |-> <<>>]
    ELSE IF ls[sub_idx].kind = "result" /\ ls[sub_idx].trial = trial_number
    THEN LET ev == ReadEvent(ls, sub_idx, trial_number)
         IN  IF ev.status # "ok" \/ stop THEN ev
             ELSE LET rest == ScanBack(ls, sub_idx - 1, trial_number, stop)
                  IN  [status |-> rest.status, data |-> ev.data \o rest.data]
    ELSE ScanBack(ls, sub_idx - 1, trial_number, stop)

AlreadyRecordedNever(best_trials, trial_number) == FALSE

\* get_best_trials, lines 28-29: if trial_number in best_trials: continue
AlreadyRecorded(best_trials, trial_number) == trial_number \in best_trials

\* get_best_trials, lines 24-69: the pass over the lines of the log
RECURSIVE Recover(_, _, _, _, _)
Recover(ls, idx, best_trials, extracted_data, stop) ==
    IF idx > Len(ls)
    THEN [status |-> "ok", data |-> extracted_data, markers |-> best_trials]
    ELSE IF ls[idx].kind # "completed"
    THEN Recover(ls, idx + 1, best_trials, extracted_data, stop)
    ELSE LET trial_number == ls[idx].best
         IN  IF AlreadyRecorded(best_trials, trial_number)
             THEN Recover(ls, idx + 1, best_trials, extracted_data, stop)
             ELSE LET ev == ScanBack(ls, idx, trial_number, stop)
                  IN  IF ev.status # "ok"
                      THEN [status |-> ev.status, data |-> extracted_data,
                            markers |-> best_trials]
                      ELSE Recover(ls, idx + 1, best_trials \cup {trial_number},
                                   extracted_data \o ev.data, stop)

\* save_study.get_best_trials: the pass run at the end of optimize_run
GetBestTrials(ls) == Recover(ls, 1, {}, <<>>, TRUE)

\* optimize_parallel.get_best_trials: one pass of the listener thread
ListenerPass(ls) == Recover(ls, 1, {}, <<>>, FALSE)

\* the listener thread: reads the log as it is now; the CSV is rewritten
\* inside the block of every marker it records
Listener ==
    /\ parallel_run.state \in {"running", "returned"}
    /\ LET pass == ListenerPass(lines)
       IN  /\ pass.markers # {}
           /\ best_trials_csv' = pass.data
    /\ UNCHANGED <<parallel_run, workers, storage, lines>>

\* optimize_run, lines 155-156: after the workers joined, read
\* study.best_params (ValueError when no trial completed) and save_study
SaveStudy ==
    /\ parallel_run.state = "running"
    /\ \A w \in DOMAIN workers : workers[w].pc = "done"
    /\ LET pass == GetBestTrials(lines)
       IN  IF storage.best = NoTrial \/ pass.status # "ok"
           THEN /\ parallel_run' = [parallel_run EXCEPT !.state = "raised"]
                /\ UNCHANGED best_trials_csv
           ELSE /\ parallel_run' = [parallel_run EXCEPT !.state = "returned"]
                /\ best_trials_csv' = pass.data
    /\ UNCHANGED <<workers, storage, lines>>

\* build_logger(process_id): the path of the file the handler appends to
BuildLogger(process_id) ==
    IF process_id # NoNumber THEN <<"paradance_", process_id, ".log">>
    ELSE <<"paradance.log">>

\* parallel_optimize(ob, i, ntrials) calls ob.optimize(ntrials), and optimize
\* calls self.build_logger(): the worker's index i is not handed on
WorkerLogFilename(i) == BuildLogger(NoNumber)

\* optimize_run(ob, n_trials, parallel), lines 144-154
LogInit ==
    /\ CalcIdle
    /\ ObIdle
    /\ StudyIdle
    /\ \E n_trials \in 1..MaxTrials, direction \in {"minimize", "maximize"} :
          \E parallel \in Parallels :
             LET unit_n_trials == UnitTrials(n_trials, parallel)
             IN  /\ parallel_run = [state |-> "running", n_trials |-> n_trials,
                                    parallel |-> parallel, direction |-> direction]
                 /\ workers = [w \in 1..NumWorkers(parallel) |->
                                 [pc |-> IF unit_n_trials > 0 THEN "ask" ELSE "done",
                                  left |-> unit_n_trials,
                                  number |-> NoNumber, result |-> 0,
                                  log_filename |-> WorkerLogFilename(w - 1)]]
    /\ storage = [next_number |-> 0, best |-> NoTrial]
    /\ lines = <<>>
    /\ best_trials_csv = Unset
    /\ MetricIdle

LogNext ==
    \/ \E w \in DOMAIN workers :
          /\ (Ask(w) \/ LogResult(w) \/ LogTargets(w) \/ LogWeights(w)
                \/ TellTrial(w) \/ LogCompleted(w))
          /\ UNCHANGED <<calcVars, obVars, studyVars, metricVars>>
    \/ (Listener /\ UNCHANGED <<calcVars, obVars, studyVars, metricVars>>)
    \/ (SaveStudy /\ UNCHANGED <<calcVars, obVars, studyVars, metricVars>>)

SpecLog == LogInit /\ [][LogNext]_vars


MarkedIds(ls) == {ls[i].best : i \in {j \in 1..Len(ls) : ls[j].kind = "completed"}}

EntriesFor(data, n) == Cardinality({i \in 1..Len(data) : data[i].trial = n})

\* the values trial e.trial wrote to the log
OwnValues(e) ==
    /\ \E i \in 1..Len(lines) : lines[i] = ResultLine(e.trial, e.result)
    /\ e.targets = TargetsLine(e.trial).value
    /\ e.weights = WeightsLine(e.trial).value

\* C5: for every trial the log holds its "Trial {id} finished with result:"
\* line, then its "targets:" line, then its "weights:" line, as one group
\* with no line of another trial between them, for any interleaving of the
\* workers started by optimize_run.
C5_LinesOfATrialAreOneGroup ==
    \A i \in 1..Len(lines) :
        lines[i].kind = "result" =>
            /\ i + 1 <= Len(lines) => lines[i + 1] = TargetsLine(lines[i].trial)
            /\ i + 2 <= Len(lines) => lines[i + 2] = WeightsLine(lines[i].trial)

\* C6: for each "Best is trial N" marker the recovery pass records, the
\* recovered result, targets and weights are the three values trial N itself
\* logged, never a line written by another trial, for any log the parallel
\* workers can produce.
C6_RecoveredValuesAreTheTrialsOwn ==
    best_trials_csv # Unset =>
        \A i \in 1..Len(best_trials_csv) : OwnValues(best_trials_csv[i])

----------------------------------------------------------------------------
(* JSON formulas (evaluation/calculate_json_formula.py)                    *)
(*                                                                         *)
(* A formula is a text; safe_eval substitutes the text of each context     *)
(* value for every occurrence of its key and evaluates the result as a     *)
(* Python expression.  A value is a record: kind "int" (np.int64 cell),    *)
(* "float" (a float holding the whole number v), "nan", "None" (safe_eval  *)
(* caught an exception) or "raise" (an exception that escapes).            *)

MaxJsonRows == 2      \* frames have 1..MaxJsonRows rows

IntCell(v) == [kind |-> "int", v |-> v]

Float(v) == [kind |-> "float", v |-> v]

NaN == [kind |-> "nan", v |-> 0]

NoneValue == [kind |-> "None", v |-> 0]

Raised == [kind |-> "raise", v |-> 0]

IntStr(n) == IF n < 0 THEN <<"-">> \o NatStr(0 - n) ELSE NatStr(n)

\* str(value): "3" for an integer cell, "3.0" for a float, "nan"
Str(value) ==
    CASE value.kind = "int" -> IntStr(value.v)
      [] value.kind = "float" -> IntStr(value.v) \o <<".", "0">>
      [] value.kind = "nan" -> <<"n", "a", "n">>
      [] OTHER -> <<"N", "o", "n", "e">>

\* the value of an expression, computed once and bound for the body (an
\* assignment to a local variable)
Eager(value, Body(_)) == CHOOSE result \in {Body(v) : v \in {value}} : TRUE

StartsWith(text, var) == Len(var) <= Len(text) /\ SubSeq(text, 1, Len(var)) = var

\* var in expression
RECURSIVE Contains(_, _)
Contains(text, var) == IF Len(text) < Len(var) THEN FALSE ELSE StartsWith(text, var) \/ Contains(Tail(text), var)

\* expression.replace(var, new): every occurrence, left to right
RECURSIVE Replace(_, _, _)
Replace(text, var, new) ==
    Eager(text, LAMBDA t :
        IF t = <<>> THEN <<>>
        ELSE IF StartsWith(t, var)
        THEN new \o Replace(SubSeq(t, Len(var) + 1, Len(t)), var, new)
        ELSE <<t[1]>> \o Replace(Tail(t), var, new))

\* a dict is the sequence of its items in insertion order
Keys(dict) == [i \in 1..Len(dict) |-> dict[i].key]

Get(dict, key) == (CHOOSE item \in Range(dict) : item.key = key).value

\* dict[key] = value
Put(dict, key, value) ==
    Eager(dict, LAMBDA d :
        IF \E i \in 1..Len(d) : d[i].key = key
        THEN [i \in 1..Len(d) |->
                IF d[i].key = key THEN [key |-> key, value |-> value] ELSE d[i]]
        ELSE Append(d, [key |-> key, value |-> value]))

\* {**a, **b}
RECURSIVE Merge(_, _)
Merge(a, b) == IF b = <<>> THEN a ELSE Merge(Put(a, b[1].key, b[1].value), Tail(b))

\* sorted(keys, key=len, reverse=True): longest first, equal lengths in
\* their dict order
RECURSIVE KeysOfLengthDown(_, _)
KeysOfLengthDown(keys, len) ==
    IF len = 0 THEN <<>>
    ELSE SelectSeq(keys, LAMBDA k : Len(k) = len) \o KeysOfLengthDown(keys, len - 1)

LongestKey(keys) == IF keys = <<>> THEN 0 ELSE CHOOSE m \in {Len(keys[i]) : i \in 1..Len(keys)} : \A i \in 1..Len(keys) : Len(keys[i]) <= m

SortedKeys(context) == Eager(Keys(context), LAMBDA keys : KeysOfLengthDown(keys, LongestKey(keys)))

\* safe_eval, lines 63-65: for var in sorted_keys: replace var by str(value)
RECURSIVE Substitute(_, _, _)
Substitute(expression, context, sorted_keys) ==
    IF sorted_keys = <<>> THEN expression
    ELSE Eager(expression, LAMBDA e :
         Eager(sorted_keys[1], LAMBDA var :
            Substitute(IF Contains(e, var)
                       THEN Replace(e, var, Str(Get(context, var)))
                       ELSE e,
                       context, Tail(sorted_keys))))

(* eval(expression): the arithmetic part of Python's expression grammar,   *)
(*   expr  ::= term  (("+" | "-") term)*                                   *)
(*   term  ::= unary (("*" | "/") unary)*                                  *)
(*   unary ::= ("-" | "+") unary | power                                   *)
(*   power ::= atom ["**" unary]                                           *)
(*   atom  ::= number | "(" expr ")" | "max(" expr "," expr ")"            *)
(*           | "min(" expr "," expr ")" | "abs(" expr ")"                  *)
(* over whole numbers.  Any other character starts a name that the eval    *)
(* namespace does not hold, or is a syntax error: both raise.  The drawn   *)
(* formulas and cells divide only where the quotient is a whole number or  *)
(* the divisor is zero, and take powers only to natural exponents; a       *)
(* result outside the whole numbers is reported as a failure like a raise. *)

Fail == [ok |-> FALSE, val |-> 0, rest |-> <<>>]

Parsed(val, rest) == [ok |-> TRUE, val |-> val, rest |-> rest]

IsDigit(c) == \E i \in 1..10 : Digits[i] = c

DigitValue(c) == (CHOOSE i \in 1..10 : Digits[i] = c) - 1

RECURSIVE ParseDigits(_, _)
ParseDigits(text, acc) ==
    Eager(text, LAMBDA t :
        IF t # <<>> /\ IsDigit(t[1])
        THEN ParseDigits(Tail(t), 10 * acc + DigitValue(t[1]))
        ELSE Parsed(acc, t))

\* digits ["." digits]; the fraction digits of the texts Str writes are 0
ParseNumber(text) ==
    Eager(ParseDigits(text, 0), LAMBDA whole :
        IF whole.rest # <<>> /\ whole.rest[1] = "."
        THEN Eager(ParseDigits(Tail(whole.rest), 0), LAMBDA fraction :
                IF fraction.val = 0 THEN Parsed(whole.val, fraction.rest) ELSE Fail)
        ELSE whole)

\* a / b for whole numbers: ZeroDivisionError, or the whole quotient
Quotient(a, b) ==
    IF b = 0 \/ Abs(a) % Abs(b) # 0 THEN Fail
    ELSE Parsed((Abs(a) \div Abs(b)) * (IF (a < 0) = (b < 0) THEN 1 ELSE -1), <<>>)

RECURSIVE ParseExpr(_)
RECURSIVE ParseExprRest(_, _)
RECURSIVE ParseTerm(_)
RECURSIVE ParseTermRest(_, _)
RECURSIVE ParseUnary(_)
RECURSIVE ParsePower(_)
RECURSIVE ParseAtom(_)
RECURSIVE ParseCall(_, _)

\* the functions of the eval namespace applied to whole numbers: the text
\* after "max(", "min(" or "abs(" up to the closing parenthesis
ParseCall(fn, text) ==
    Eager(ParseExpr(text), LAMBDA first :
        IF ~first.ok \/ first.rest = <<>> THEN Fail
        ELSE IF fn = "abs"
        THEN (IF first.rest[1] = ")" THEN Parsed(Abs(first.val), Tail(first.rest))
              ELSE Fail)
        ELSE IF first.rest[1] # "," THEN Fail
        ELSE Eager(ParseExpr(Tail(first.rest)), LAMBDA second :
                IF second.ok /\ second.rest # <<>> /\ second.rest[1] = ")"
                THEN Parsed(IF (fn = "max") = (first.val >= second.val)
                            THEN first.val ELSE second.val,
                            Tail(second.rest))
                ELSE Fail))

ParseAtom(text) ==
    Eager(text, LAMBDA t :
        IF t = <<>> THEN Fail
        ELSE IF IsDigit(t[1]) THEN ParseNumber(t)
        ELSE IF StartsWith(t, <<"m", "a", "x", "(">>)
        THEN ParseCall("max", SubSeq(t, 5, Len(t)))
        ELSE IF StartsWith(t, <<"m", "i", "n", "(">>)
        THEN ParseCall("min", SubSeq(t, 5, Len(t)))
        ELSE IF StartsWith(t, <<"a", "b", "s", "(">>)
        THEN ParseCall("abs", SubSeq(t, 5, Len(t)))
        ELSE IF t[1] = "("
        THEN Eager(ParseExpr(Tail(t)), LAMBDA inner :
                IF inner.ok /\ inner.rest # <<>> /\ inner.rest[1] = ")"
                THEN Parsed(inner.val, Tail(inner.rest))
                ELSE Fail)
        ELSE Fail)

ParsePower(text) ==
    Eager(ParseAtom(text), LAMBDA base :
        IF base.ok /\ StartsWith(base.rest, <<"*", "*">>)
        THEN Eager(ParseUnary(SubSeq(base.rest, 3, Len(base.rest))), LAMBDA exponent :
                IF exponent.ok /\ exponent.val >= 0
                THEN Parsed(Pow(base.val, exponent.val), exponent.rest)
                ELSE Fail)
        ELSE base)

ParseUnary(text) ==
    Eager(text, LAMBDA t :
        IF t # <<>> /\ t[1] = "-"
        THEN Eager(ParseUnary(Tail(t)), LAMBDA operand :
                IF operand.ok THEN Parsed(0 - operand.val, operand.rest) ELSE Fail)
        ELSE IF t # <<>> /\ t[1] = "+" THEN ParseUnary(Tail(t))
        ELSE ParsePower(t))

ParseTermRest(acc, text) ==
    Eager(text, LAMBDA t :
        IF t # <<>> /\ t[1] = "*" /\ ~StartsWith(t, <<"*", "*">>)
        THEN Eager(ParseUnary(Tail(t)), LAMBDA right :
                IF right.ok THEN ParseTermRest(acc * right.val, right.rest) ELSE Fail)
        ELSE IF t # <<>> /\ t[1] = "/"
        THEN Eager(ParseUnary(Tail(t)), LAMBDA right :
                IF right.ok
                THEN Eager(Quotient(acc, right.val), LAMBDA quotient :
                        IF quotient.ok THEN ParseTermRest(quotient.val, right.rest)
                        ELSE Fail)
                ELSE Fail)
        ELSE Parsed(acc, t))

ParseTerm(text) ==
    Eager(ParseUnary(text), LAMBDA left :
        IF left.ok THEN ParseTermRest(left.val, left.rest) ELSE Fail)

ParseExprRest(acc, text) ==
    Eager(text, LAMBDA t :
        IF t # <<>> /\ t[1] \in {"+", "-"}
        THEN Eager(ParseTerm(Tail(t)), LAMBDA right :
                IF right.ok
                THEN ParseExprRest(IF t[1] = "+" THEN acc + right.val
                                                 ELSE acc - right.val, right.rest)
                ELSE Fail)
        ELSE Parsed(acc, t))

ParseExpr(text) ==
    Eager(ParseTerm(text), LAMBDA left :
        IF left.ok THEN ParseExprRest(left.val, left.rest) ELSE Fail)

\* eval(expression, ...): the value, or not ok when eval raises
PyEval(text) ==
    Eager(ParseExpr(text), LAMBDA parsed :
        [ok |-> parsed.ok /\ parsed.rest = <<>>, val |-> parsed.val])

\* safe_eval, lines 56-74: "^" becomes "**", the context is substituted and
\* the text is evaluated.  (The drawn formulas hold no "if(", so the if_else
\* rewrite leaves them as they are.)
EvalSubstituted(expression, context) ==
    Eager(context, LAMBDA c :
    Eager(SortedKeys(c), LAMBDA sorted_keys :
        PyEval(Substitute(Replace(expression, <<"^">>, <<"*", "*">>), c, sorted_keys))))

SafeEvalUncaught(expression, context) ==
    Eager(EvalSubstituted(expression, context), LAMBDA value :
        IF value.ok THEN Float(value.val) ELSE Raised)

\* safe_eval: the evaluation runs inside try/except Exception, which
\* returns None
SafeEval(expression, context) ==
    Eager(EvalSubstituted(expression, context), LAMBDA value :
        IF value.ok THEN Float(value.val) ELSE NoneValue)

\* key.split(delimiter)[0]
RECURSIVE BaseKey(_, _)
BaseKey(key, delimiter) ==
    IF key = <<>> \/ StartsWith(key, delimiter) THEN <<>>
    ELSE <<key[1]>> \o BaseKey(Tail(key), delimiter)

\* calculate_row, lines 100-105: the stages in declaration order
RECURSIVE StageLoop(_, _, _, _)
StageLoop(stages, variable_values, row_scores, delimiter) ==
    Eager(variable_values, LAMBDA values :
    Eager(row_scores, LAMBDA scores :
        IF stages = <<>>
        THEN [variable_values |-> values, row_scores |-> scores, raised |-> FALSE]
        ELSE Eager(SafeEval(stages[1].value, Merge(values, scores)), LAMBDA result :
                IF result = Raised
                THEN [variable_values |-> values, row_scores |-> scores,
                      raised |-> TRUE]
                ELSE IF result # NoneValue
                THEN StageLoop(Tail(stages),
                               Put(values, BaseKey(stages[1].key, delimiter), result),
                               Put(scores, stages[1].key, result), delimiter)
                ELSE StageLoop(Tail(stages), values, scores, delimiter))))

\* row.to_dict()
RowDict(columns, row) == [c \in 1..Len(columns) |-> [key |-> columns[c], value |-> row[c]]]

\* calculate_row, lines 97-105
StagePass(columns, row, formula, tuning_weights, delimiter) ==
    StageLoop(formula, Merge(RowDict(columns, row), tuning_weights), <<>>, delimiter)

\* calculate_row: the stages, then the last stage's formula evaluated again
CalculateRow(columns, row, formula, tuning_weights, delimiter) ==
    Eager(StagePass(columns, row, formula, tuning_weights, delimiter), LAMBDA pass :
        IF pass.raised THEN Raised
        ELSE SafeEval(formula[Len(formula)].value,
                      Merge(pass.variable_values, pass.row_scores)))

\* {f"weights[{index}]": value for index, value in enumerate(weights)}
TuningWeights(weights) ==
    [i \in 1..Len(weights) |->
        [key |-> <<"w", "e", "i", "g", "h", "t", "s", "[">> \o NatStr(i - 1) \o <<"]">>,
         value |-> weights[i]]]

\* calculate_formula_scores: calculate_row applied to every row
CalculateFormulaScores(formula, columns, frame, weights, delimiter) ==
    Eager(TuningWeights(weights), LAMBDA tuning_weights :
    Eager([r \in 1..Len(frame) |->
              CalculateRow(columns, frame[r], formula, tuning_weights, delimiter)],
          LAMBDA scores :
              [outcome |-> IF \E r \in 1..Len(frame) : scores[r] = Raised
                           THEN "raised" ELSE "returned",
               scores |-> scores]))

Delimiter == <<"#">>    \* Calculator(delimiter="#")

Stage(key, formula) == [key |-> key, value |-> formula]

\* the drawn formulas: the two-stage example, stages that share a base name,
\* a division with a tuning weight, a single power stage, three stages
JsonFormulas ==
    { << Stage(<<"a">>, <<"x", "+", "1">>), Stage(<<"b">>, <<"a", "*", "2">>) >>,
      << Stage(<<"s", "#", "1">>, <<"x", "+", "1">>),
         Stage(<<"s", "#", "2">>, <<"s", "*", "2">>) >>,
      << Stage(<<"a">>, <<"3", "/", "x">>),
         Stage(<<"b">>, <<"a", "+", "w", "e", "i", "g", "h", "t", "s", "[", "0", "]">>) >>,
      << Stage(<<"a">>, <<"x", "^", "2">>) >>,
      << Stage(<<"a">>, <<"x", "+", "1">>), Stage(<<"b">>, <<"a", "*", "2">>),
         Stage(<<"c">>, <<"b", "-", "a">>) >> }

FeatureValues == {0, 1, 3}

\* the drawn frames of one column x: an integer column, or a float column
\* that may hold NaN
JsonFrames ==
    UNION {[1..k -> [1..1 -> {IntCell(v) : v \in FeatureValues}]]
              \cup [1..k -> [1..1 -> {Float(v) : v \in FeatureValues} \cup {NaN}]] :
           k \in 1..MaxJsonRows}

JsonWeights == {<<Float(1)>>, <<Float(2)>>}

JsonInit ==
    /\ ObIdle
    /\ StudyIdle
    /\ LogIdle
    /\ MetricIdle
    /\ equation_type = "json"
    /\ equation_json \in JsonFormulas
    /\ equation_eval_str = None
    /\ selected_columns = << <<"x">> >>
    /\ selected_values \in JsonFrames
    /\ overall_score = Unset
    /\ score_call = [weights |-> <<>>, outcome |-> "never"]

\* get_overall_score, lines 109-115: the json branch
JsonGetOverallScore(w) ==
    /\ ScoreBranch(equation_type, Len(selected_columns), w) = "json"
    /\ \E call \in {CalculateFormulaScores(equation_json, selected_columns,
                                             selected_values, w, Delimiter)} :
          /\ overall_score' = IF call.outcome = "returned" THEN call.scores
                                                           ELSE overall_score
          /\ score_call' = [weights |-> w, outcome |-> call.outcome]
    /\ UNCHANGED <<equation_type, selected_values, selected_columns,
                   equation_json, equation_eval_str, obVars, studyVars, logVars,
                   metricVars>>

JsonNext ==
    /\ score_call.outcome = "never"
    /\ \E w \in JsonWeights : JsonGetOverallScore(w)

SpecJson == JsonInit /\ [][JsonNext]_vars

RemoveAt(seq, k) == SubSeq(seq, 1, k - 1) \o SubSeq(seq, k + 1, Len(seq))

ExampleFormula == << Stage(<<"a">>, <<"x", "+", "1">>), Stage(<<"b">>, <<"a", "*", "2">>) >>

\* C9: for a JSON formula whose stages all evaluate on a row, the stages are
\* evaluated in declaration order, each may use the results of earlier
\* stages, and the row's overall_score is the value computed for the last
\* stage in that pass (stages a = x+1, b = a*2 on x = 3 give a = 4 and score
\* 8), also when stage keys share a base name before the delimiter.
C9_ScoreIsLastStage ==
    score_call.outcome = "returned" =>
        \A r \in 1..Len(selected_values) :
            LET pass == StagePass(selected_columns, selected_values[r],
                                  equation_json,
                                  TuningWeights(score_call.weights), Delimiter)
                n == Len(equation_json)
            IN  Len(pass.row_scores) = n =>
                   /\ overall_score[r] = pass.row_scores[n].value
                   /\ (equation_json = ExampleFormula /\ selected_values[r][1].v = 3) =>
                         /\ pass.row_scores[1].value = Float(4)
                         /\ overall_score[r] = Float(8)

\* C10: if evaluating the formula fails on one row, calculate_formula_scores
\* still returns a value for every row: the failing row gets None, no
\* exception escapes, and every other row's score is the same as if the
\* failing row were absent.
C10_FailingRowIsIsolated ==
    score_call.outcome # "never" =>
        /\ score_call.outcome = "returned"
        /\ Len(overall_score) = Len(selected_values)
        /\ \A r \in 1..Len(overall_score) :
              overall_score[r].kind \in {"float", "None"}
        /\ \A k \in 1..Len(overall_score) :
              (overall_score[k] = NoneValue /\ Len(overall_score) > 1) =>
                  LET without == CalculateFormulaScores(
                                     equation_json, selected_columns,
                                     RemoveAt(selected_values, k),
                                     score_call.weights, Delimiter)
                  IN  /\ without.outcome = "returned"
                      /\ without.scores = RemoveAt(overall_score, k)

C10_Witness ==
    /\ score_call.outcome = "returned"
    /\ \E k, r \in 1..Len(overall_score) :
          /\ overall_score[k] = NoneValue
          /\ overall_score[r].kind = "float"


----------------------------------------------------------------------------
(* Grouped ranking AUC (evaluation/wuauc_evaluator.py, woauc_evaluator.py) *)
(*                                                                         *)
(* A row of df holds its group key, its binary label and its              *)
(* overall_score.  roc_auc_score on labels of a single class is undefined: *)
(* scikit-learn raises ValueError, or warns and returns NaN, depending on  *)
(* the release; the drawn call says which.                                 *)

MaxAucRows == 3       \* dataframes have 1..MaxAucRows rows

RECURSIVE SortedSeq(_)
SortedSeq(S) ==
    IF S = {} THEN <<>>
    ELSE LET m == CHOOSE x \in S : \A y \in S : x <= y
         IN  <<m>> \o SortedSeq(S \ {m})

\* df.groupby(groupby): the group keys in ascending order
GroupKeys(rows) == SortedSeq({rows[i].group : i \in 1..Len(rows)})

GroupRows(rows, g) == SelectSeq(rows, LAMBDA r : r.group = g)

SingleClass(rows) ==
    \/ \A i \in 1..Len(rows) : rows[i].label = 0
    \/ \A i \in 1..Len(rows) : rows[i].label = 1

\* sklearn.metrics.roc_auc_score(labels, scores): the share of
\* (positive, negative) pairs ranked in order, ties counting one half
RocAucScore(rows, single_class) ==
    LET pos == {i \in 1..Len(rows) : rows[i].label = 1}
        neg == {i \in 1..Len(rows) : rows[i].label = 0}
        above == {pair \in pos \X neg :
                     rows[pair[1]].overall_score > rows[pair[2]].overall_score}
        tied == {pair \in pos \X neg :
                     rows[pair[1]].overall_score = rows[pair[2]].overall_score}
    IN  IF SingleClass(rows)
        THEN [status |-> single_class, v |-> <<0, 1>>]
        ELSE [status |-> "ok",
              v |-> Rat(2 * Cardinality(above) + Cardinality(tied),
                        2 * Cardinality(pos) * Cardinality(neg))]

\* woauc_evaluator.calculate_score: try roc_auc_score, except: return 0.5
CalculateScore(rows, single_class) ==
    LET score == RocAucScore(rows, single_class)
    IN  IF score.status = "ValueError" THEN [status |-> "ok", v |-> <<1, 2>>]
        ELSE score

\* np.mean(grouped), or np.average(grouped, weights=weights.loc[grouped.index])
GroupAverage(keys, grouped, weights_for_groups) ==
    IF weights_for_groups = NoList
    THEN RatDiv(RatSum([i \in 1..Len(keys) |-> grouped[i].v]), <<Len(keys), 1>>)
    ELSE RatDiv(RatSum([i \in 1..Len(keys) |->
                           RatMul(<<weights_for_groups[keys[i]], 1>>, grouped[i].v)]),
                <<SeqSum([i \in 1..Len(keys) |-> weights_for_groups[keys[i]]]), 1>>)

\* df.groupby(groupby).apply(...) followed by the average: an exception of
\* the applied function leaves the evaluator, a NaN makes the average NaN
GroupedResult(keys, grouped, weights_for_groups) ==
    IF \E i \in 1..Len(keys) : grouped[i].status = "ValueError"
    THEN [outcome |-> "raised", nan |-> FALSE, value |-> <<0, 1>>]
    ELSE IF \E i \in 1..Len(keys) : grouped[i].status = "nan"
    THEN [outcome |-> "returned", nan |-> TRUE, value |-> <<0, 1>>]
    ELSE [outcome |-> "returned", nan |-> FALSE,
          value |-> GroupAverage(keys, grouped, weights_for_groups)]

\* calculate_wuauc(groupby=..., auc=False): roc_auc_score per group
Wuauc(rows, weights_for_groups, single_class) ==
    LET keys == GroupKeys(rows)
    IN  GroupedResult(keys,
                      [i \in 1..Len(keys) |->
                          RocAucScore(GroupRows(rows, keys[i]), single_class)],
                      weights_for_groups)

\* calculate_woauc(groupby=...) for one boundary key: calculate_score per group
Woauc(rows, weights_for_groups, single_class) ==
    LET keys == GroupKeys(rows)
    IN  GroupedResult(keys,
                      [i \in 1..Len(keys) |->
                          CalculateScore(GroupRows(rows, keys[i]), single_class)],
                      weights_for_groups)

AucRows == [group : 1..2, label : 0..1, overall_score : 0..1]

AucInit ==
    /\ CalcIdle
    /\ ObIdle
    /\ StudyIdle
    /\ LogIdle
    /\ df \in SeqsUpTo(AucRows, 1, MaxAucRows)
    /\ \E evaluator \in {"wuauc", "woauc"}, single_class \in {"ValueError", "nan"},
          weights_for_groups \in {NoList, <<1, 2>>} :
          evaluation = [outcome |-> "never", evaluator |-> evaluator,
                        single_class |-> single_class,
                        weights_for_groups |-> weights_for_groups]

Evaluated(result) ==
    evaluation' = [evaluation EXCEPT !.outcome = result.outcome] @@
                  [nan |-> result.nan, value |-> result.value]

CalculateWuauc ==
    /\ evaluation.outcome = "never"
    /\ evaluation.evaluator = "wuauc"
    /\ \E result \in {Wuauc(df, evaluation.weights_for_groups,
                            evaluation.single_class)} : Evaluated(result)
    /\ UNCHANGED <<calcVars, obVars, studyVars, logVars, df>>

CalculateWoauc ==
    /\ evaluation.outcome = "never"
    /\ evaluation.evaluator = "woauc"
    /\ \E result \in {Woauc(df, evaluation.weights_for_groups,
                            evaluation.single_class)} : Evaluated(result)
    /\ UNCHANGED <<calcVars, obVars, studyVars, logVars, df>>

AucNext == CalculateWuauc \/ CalculateWoauc

SpecAuc == AucInit /\ [][AucNext]_vars

\* the per-group values of the claim: the AUC of the group, 0.5 for a group
\* whose label has a single class
NeutralGroupValues(rows) ==
    LET keys == GroupKeys(rows)
    IN  [i \in 1..Len(keys) |->
            LET group == GroupRows(rows, keys[i])
            IN  [status |-> "ok",
                 v |-> IF SingleClass(group) THEN <<1, 2>>
                       ELSE RocAucScore(group, "ValueError").v]]

\* C11: in calculate_wuauc and calculate_woauc a group whose label has a
\* single class does not raise: it contributes the neutral value 0.5 and the
\* evaluator returns the average over the groups.
C11_SingleClassGroupIsNeutral ==
    (evaluation.outcome # "never"
        /\ \E g \in Range(GroupKeys(df)) : SingleClass(GroupRows(df, g))) =>
        /\ evaluation.outcome = "returned"
        /\ ~evaluation.nan
        /\ evaluation.value = GroupAverage(GroupKeys(df), NeutralGroupValues(df),
                                           evaluation.weights_for_groups)


----------------------------------------------------------------------------
(* Weighted inversion count (evaluation/inverse_pair_evaluator.py)        *)
(*                                                                         *)
(* Arrays are sequences of rows; indices are the code's 0-based ones, so   *)
(* element idx of a row is row[idx + 1].  Results are exact rationals.     *)

MaxDimension == 3     \* rows have 1..MaxDimension elements

\* Python's row[a:b] for 0 <= a and b <= len(row)
Slice(row, a, b) == SubSeq(row, a + 1, b)

\* numpy's row[a:b] = source: the source has the slice's length or is
\* broadcast from one element; any other shape raises ValueError
SliceAssign(row, a, b, source) ==
    LET length == IF b > a THEN b - a ELSE 0
    IN  IF Len(source) = length
        THEN [status |-> "ok",
              row |-> [idx \in 1..Len(row) |->
                          IF a < idx /\ idx <= b THEN source[idx - a] ELSE row[idx]]]
        ELSE IF Len(source) = 1
        THEN [status |-> "ok",
              row |-> [idx \in 1..Len(row) |->
                          IF a < idx /\ idx <= b THEN source[1] ELSE row[idx]]]
        ELSE [status |-> "ValueError", row |-> row]

\* what merge_ranges adds when it takes an element of the right range
PairWeight(weight_type, j, idx_left, k) ==
    IF weight_type = "count" THEN <<1, 1>>
    ELSE IF weight_type = "linear" THEN Rat(j - idx_left, 2)
    ELSE IF weight_type = "exponential"
    THEN RatMul(<<j - idx_left, 1>>, Rat(Pow(4, k), Pow(5, k)))
    ELSE <<0, 1>>

\* the while loop of merge_ranges on row k
RECURSIVE MergeLoop(_, _, _, _, _, _, _, _, _, _)
MergeLoop(target, temporary, idx_temporary, idx_left, idx_right, j, end, result, weight_type, k) ==
    IF ~(idx_left < j /\ idx_right < end)
    THEN [temporary |-> temporary, idx_temporary |-> idx_temporary,
          idx_left |-> idx_left, idx_right |-> idx_right, result |-> result]
    ELSE IF target[idx_left + 1] >= target[idx_right + 1]
    THEN MergeLoop(target,
                   [temporary EXCEPT ![idx_temporary + 1] = target[idx_left + 1]],
                   idx_temporary + 1, idx_left + 1, idx_right, j, end, result,
                   weight_type, k)
    ELSE MergeLoop(target,
                   [temporary EXCEPT ![idx_temporary + 1] = target[idx_right + 1]],
                   idx_temporary + 1, idx_left, idx_right + 1, j, end,
                   RatAdd(result, PairWeight(weight_type, j, idx_left, k)),
                   weight_type, k)

\* one row of merge_ranges: the loop, then the two copies of what is left
MergeRow(target, temporary, i, j, end, result, weight_type, k) ==
    LET loop == MergeLoop(target, temporary, i, i, j, j, end, result, weight_type, k)
        left == SliceAssign(loop.temporary, loop.idx_temporary, j,
                            Slice(target, loop.idx_left, j))
        right == SliceAssign(left.row, loop.idx_temporary, end,
                             Slice(target, loop.idx_right, end))
    IN  IF left.status # "ok" THEN [status |-> left.status, row |-> temporary,
                                    result |-> result]
        ELSE [status |-> right.status, row |-> right.row, result |-> loop.result]

\* merge_ranges: rows k, k + 1, ... of the batch
RECURSIVE MergeRanges(_, _, _, _, _, _, _, _)
MergeRanges(target_queue, temporary_queue, i, j, end, weight_type, k, result) ==
    IF k >= Len(target_queue)
    THEN [status |-> "ok", temporary_queue |-> temporary_queue, result |-> result]
    ELSE LET row == MergeRow(target_queue[k + 1], temporary_queue[k + 1], i, j, end,
                             result, weight_type, k)
         IN  IF row.status # "ok"
             THEN [status |-> row.status, temporary_queue |-> temporary_queue,
                   result |-> result]
             ELSE MergeRanges(target_queue,
                              [temporary_queue EXCEPT ![k + 1] = row.row],
                              i, j, end, weight_type, k + 1, row.result)

Min2(a, b) == IF a <= b THEN a ELSE b

\* target_queue[:, i:end] = temporary_queue[:, i:end]
CopyBack(target_queue, temporary_queue, i, end) ==
    [k \in 1..Len(target_queue) |->
        [idx \in 1..Len(target_queue[k]) |->
            IF i < idx /\ idx <= end THEN temporary_queue[k][idx]
            ELSE target_queue[k][idx]]]

\* merge_and_count: for i in range(i, end_index, 2 * step), then step *= 2
RECURSIVE MergeSteps(_, _, _, _, _, _, _, _)
MergeSteps(target_queue, temporary_queue, start_index, end_index, weight_type, step, i, result) ==
    IF step >= end_index - start_index
    THEN [status |-> "ok", result |-> result, target_queue |-> target_queue]
    ELSE IF i >= end_index
    THEN MergeSteps(target_queue, temporary_queue, start_index, end_index,
                    weight_type, 2 * step, start_index, result)
    ELSE LET j == Min2(i + step, end_index)
             end == Min2(j + step, end_index)
             merged == MergeRanges(target_queue, temporary_queue, i, j, end,
                                   weight_type, 0, <<0, 1>>)
         IN  IF merged.status # "ok"
             THEN [status |-> merged.status, result |-> result,
                   target_queue |-> target_queue]
             ELSE MergeSteps(CopyBack(target_queue, merged.temporary_queue, i, end),
                             merged.temporary_queue, start_index, end_index,
                             weight_type, step, i + 2 * step,
                             RatAdd(result, merged.result))

MergeAndCount(target_queue, temporary_queue, start_index, end_index, weight_type) ==
    MergeSteps(target_queue, temporary_queue, start_index, end_index, weight_type,
               1, start_index, <<0, 1>>)


\* np.argsort(-merge_scores) for one row: the 0-based positions in an order
\* of non-increasing merge score; equal scores come in an order the sort
\* algorithm picks
ArgsortDescending(merge_row) ==
    {order \in [1..Len(merge_row) -> 0..(Len(merge_row) - 1)] :
        /\ \A a, b \in 1..Len(merge_row) : a # b => order[a] # order[b]
        /\ \A a \in 1..(Len(merge_row) - 1) :
              merge_row[order[a] + 1] >= merge_row[order[a + 1] + 1]}

\* target_scores[sample_indices, sorted_indices]
SortedTargetScores(target_scores, sorted_indices) ==
    [k \in 1..Len(target_scores) |->
        [idx \in 1..Len(target_scores[k]) |->
            target_scores[k][sorted_indices[k][idx] + 1]]]

\* calculate_inverse_pairs for the drawn argsort result
CalculateInversePairs(target_scores, sorted_indices, weights_type) ==
    LET num_samples == Len(target_scores)
        dimension == Len(target_scores[1])
        temp_scores == [k \in 1..num_samples |-> [idx \in 1..dimension |-> 0]]
        counted == MergeAndCount(SortedTargetScores(target_scores, sorted_indices),
                                 temp_scores, 0, dimension, weights_type)
    IN  IF counted.status # "ok"
        THEN [outcome |-> "raised", value |-> <<0, 1>>,
              target_queue |-> counted.target_queue]
        ELSE [outcome |-> "returned",
              value |-> RatDiv(counted.result, <<num_samples, 1>>),
              target_queue |-> counted.target_queue]

ScoreValues == 0..2

WeightTypes == {"count", "linear", "exponential"}

\* one ground-truth row and one merged-score row of the same length
InverseInit ==
    /\ CalcIdle
    /\ ObIdle
    /\ StudyIdle
    /\ LogIdle
    /\ \E dimension \in 1..MaxDimension :
          df \in [target_scores : {<<row>> : row \in [1..dimension -> ScoreValues]},
                  merge_scores : {<<row>> : row \in [1..dimension -> ScoreValues]}]
    /\ \E weights_type \in WeightTypes :
          evaluation = [outcome |-> "never", weights_type |-> weights_type]

InversePairs ==
    /\ evaluation.outcome = "never"
    /\ \E order \in ArgsortDescending(df.merge_scores[1]) :
          \E result \in {CalculateInversePairs(df.target_scores, <<order>>,
                                               evaluation.weights_type)} :
              evaluation' = [evaluation EXCEPT !.outcome = result.outcome] @@
                  [value |-> result.value,
                   target_queue |-> result.target_queue[1],
                   sorted_target_scores |->
                       SortedTargetScores(df.target_scores, <<order>>)[1]]
    /\ UNCHANGED <<calcVars, obVars, studyVars, logVars, df>>

InverseNext == InversePairs

SpecInverse == InverseInit /\ [][InverseNext]_vars

NonIncreasing(row) == \A a \in 1..(Len(row) - 1) : row[a] >= row[a + 1]

StrictlyIncreasing(row) == \A a \in 1..(Len(row) - 1) : row[a] < row[a + 1]

\* C12: the weighted inversion count of one ground-truth row is 0 under
\* count, linear and exponential when the ground-truth values in descending
\* merged-score order are non-increasing, and under count it is n*(n-1)/2
\* when they are strictly increasing, for every n >= 1.
C12_SortedIsZeroReversedIsMaximal ==
    evaluation.outcome # "never" =>
        LET row == evaluation.sorted_target_scores
            n == Len(row)
        IN  /\ NonIncreasing(row) =>
                  /\ evaluation.outcome = "returned"
                  /\ evaluation.value = <<0, 1>>
            /\ (evaluation.weights_type = "count" /\ StrictlyIncreasing(row)) =>
                  /\ evaluation.outcome = "returned"
                  /\ evaluation.value = <<(n * (n - 1)) \div 2, 1>>


----------------------------------------------------------------------------
(* Portfolio concentration (evaluation/portfolio_evaluator.py,             *)
(* distinct_portfolio_evaluator.py, base_evaluator.py)                     *)
(*                                                                         *)
(* A row holds its overall_score, its target value and its mask value.     *)
(* sort_values orders equal scores as its sort algorithm happens to; the   *)
(* order is drawn once for a dataframe, as the sort is a function of it.   *)

MaxPortfolioRows == 3     \* dataframes have 0..MaxPortfolioRows rows

\* evaluation_preprocessor: the rows whose mask is not 0, or all rows
EvaluatedDataframe(rows, mask_column) ==
    IF mask_column # None
    THEN SelectSeq(rows, LAMBDA r : r.mask # 0)
    ELSE rows

\* df.sort_values("overall_score", ascending=False) for the drawn order
SortValues(rows, order) == [idx \in 1..Len(rows) |-> rows[order[idx] + 1]]

\* df["cumulative_ratio"] > expected_return at row idx; a zero sum_all makes
\* the ratio inf, -inf or NaN
RatioExceeds(sorted, idx, expected_return) ==
    LET sum_all == SeqSum([a \in 1..Len(sorted) |-> sorted[a].target])
        cumulative_sum == SeqSum([a \in 1..idx |-> sorted[a].target])
    IN  IF sum_all = 0 THEN cumulative_sum > 0
        ELSE RatLt(expected_return, Rat(cumulative_sum, sum_all))

MaxOf(S) == CHOOSE x \in S : \A y \in S : y <= x

\* ["overall_score"].max() of the selected rows: NaN when none is selected
ThresholdOf(sorted, selected) ==
    IF selected = {} THEN [nan |-> TRUE, v |-> 0]
    ELSE [nan |-> FALSE, v |-> MaxOf({sorted[idx].overall_score : idx \in selected})]

RowsNotAbove(sorted, threshold) ==
    IF threshold.nan THEN 0
    ELSE Cardinality({idx \in 1..Len(sorted) : sorted[idx].overall_score <= threshold.v})

\* df[df["overall_score"] > threshold].shape[0]
RowsAbove(sorted, threshold) ==
    IF threshold.nan THEN 0
    ELSE Cardinality({idx \in 1..Len(sorted) : sorted[idx].overall_score > threshold.v})

ClampNever(above, length) == Rat(above, length)

\* concentration = 1 if concentration == 0 else concentration
Clamp(above, length) == IF above = 0 THEN <<1, 1>> ELSE Rat(above, length)

\* if expected_return is None: expected_return = 0.95
DefaultExpected(expected_return) ==
    IF expected_return = NoFloat THEN <<19, 20>> ELSE expected_return

\* calculate_portfolio_concentration on the sorted evaluated dataframe
PortfolioConcentration(sorted, expected_return) ==
    LET selected == {idx \in 1..Len(sorted) :
                        RatioExceeds(sorted, idx, DefaultExpected(expected_return))}
        threshold == ThresholdOf(sorted, selected)
    IN  IF Len(sorted) = 0
        THEN [outcome |-> "ZeroDivisionError", expected_return |-> expected_return,
              threshold |-> threshold, concentration |-> <<0, 1>>]
        ELSE [outcome |-> "returned", expected_return |-> expected_return,
              threshold |-> threshold,
              concentration |-> Clamp(RowsAbove(sorted, threshold), Len(sorted))]

ScoreLevels == 0..2

TargetValues == 0..1

PortfolioRows == [overall_score : ScoreLevels, target : TargetValues, mask : 0..1]

ExpectedReturns == {NoFloat, <<1, 4>>, <<1, 2>>, <<1, 1>>}

PortfolioInit ==
    /\ CalcIdle
    /\ ObIdle
    /\ StudyIdle
    /\ LogIdle
    /\ df \in SeqsUpTo(PortfolioRows, 0, MaxPortfolioRows)
    /\ \E mask_column \in {None, "mask"} :
          /\ mask_column = None => \A idx \in 1..Len(df) : df[idx].mask = 1
          /\ \E order \in ArgsortDescending(
                    [idx \in 1..Len(EvaluatedDataframe(df, mask_column)) |->
                        EvaluatedDataframe(df, mask_column)[idx].overall_score]) :
                evaluation = [outcome |-> "never", mask_column |-> mask_column,
                              order |-> order, calls |-> <<>>]

\* the evaluated dataframe in the order sort_values gives it
SortedFrame == SortValues(EvaluatedDataframe(df, evaluation.mask_column), evaluation.order)

\* one call, and a second one with a larger expected_return on the same data
CalculatePortfolioConcentration ==
    /\ Len(evaluation.calls) < 2
    /\ \E expected_return \in ExpectedReturns :
          /\ evaluation.calls # <<>> =>
                RatLt(DefaultExpected(evaluation.calls[1].expected_return),
                      DefaultExpected(expected_return))
          /\ \E call \in {PortfolioConcentration(SortedFrame, expected_return)} :
                evaluation' = [evaluation EXCEPT !.outcome = call.outcome,
                                                 !.calls = Append(@, call)]
    /\ UNCHANGED <<calcVars, obVars, studyVars, logVars, df>>

PortfolioNext == CalculatePortfolioConcentration

SpecPortfolio == PortfolioInit /\ [][PortfolioNext]_vars

NoRowAbove(call) ==
    \/ call.threshold.nan
    \/ \A idx \in 1..Len(SortedFrame) :
          SortedFrame[idx].overall_score <= call.threshold.v

\* C13: calculate_portfolio_concentration never returns a concentration of
\* 0: every returned concentration is in (0, 1], and it is 1 whenever no row
\* has overall_score strictly above the threshold (also when no row's
\* cumulative ratio exceeds expected_return, the threshold then being NaN).
C13_ConcentrationIsNeverZero ==
    \A c \in 1..Len(evaluation.calls) :
        LET call == evaluation.calls[c]
        IN  call.outcome = "returned" =>
                /\ RatLt(<<0, 1>>, call.concentration)
                /\ RatLe(call.concentration, <<1, 1>>)
                /\ NoRowAbove(call) => call.concentration = <<1, 1>>

\* a returned call whose threshold is the maximum score of a dataframe that
\* has rows of lower score
C13_Witness ==
    \E c \in 1..Len(evaluation.calls) :
        /\ evaluation.calls[c].outcome = "returned"
        /\ ~evaluation.calls[c].threshold.nan
        /\ NoRowAbove(evaluation.calls[c])
        /\ \E idx \in 1..Len(SortedFrame) :
              SortedFrame[idx].overall_score < evaluation.calls[c].threshold.v


SomeRowAbove(call) ==
    /\ ~call.threshold.nan
    /\ \E idx \in 1..Len(SortedFrame) :
          SortedFrame[idx].overall_score > call.threshold.v

\* C15: on a fixed scored dataset with non-negative target values, for two
\* thresholds e1 < e2 <= 1 the concentration returned for e1 is not greater
\* than the one returned for e2.
C15_MonotoneInExpectedReturn ==
    (Len(evaluation.calls) = 2 /\ evaluation.calls[2].outcome = "returned") =>
        RatLe(evaluation.calls[1].concentration, evaluation.calls[2].concentration)

\* C15 as amended: the same, for every e1 whose threshold has at least one
\* row strictly above it (the concentration for e1 is not the clamped 1).
C15_MonotoneWhileUnclamped ==
    (/\ Len(evaluation.calls) = 2
     /\ evaluation.calls[2].outcome = "returned"
     /\ SomeRowAbove(evaluation.calls[1])) =>
        RatLe(evaluation.calls[1].concentration, evaluation.calls[2].concentration)

\* two calls of which the second returns a strictly larger, unclamped value
C15_Witness ==
    /\ Len(evaluation.calls) = 2
    /\ evaluation.calls[2].outcome = "returned"
    /\ SomeRowAbove(evaluation.calls[1])
    /\ SomeRowAbove(evaluation.calls[2])
    /\ RatLt(evaluation.calls[1].concentration, evaluation.calls[2].concentration)


\* calculate_distinct_count_portfolio_concentration on the sorted calculator.df
DistinctConcentration(sorted, expected_coverage) ==
    LET total_ids == Cardinality({sorted[idx].target : idx \in 1..Len(sorted)})
        is_unique == [idx \in 1..Len(sorted) |->
                         \A a \in 1..(idx - 1) : sorted[a].target # sorted[idx].target]
        uniques == [idx \in 1..Len(sorted) |->
                       Cardinality({a \in 1..idx : is_unique[a]})]
        df_filtered == {idx \in 1..Len(sorted) :
                           RatLt(DefaultExpected(expected_coverage),
                                 Rat(uniques[idx], total_ids))}
        threshold == sorted[CHOOSE idx \in df_filtered :
                               \A a \in df_filtered : idx <= a].overall_score
    IN  IF df_filtered # {}
        THEN [outcome |-> "returned", expected_return |-> expected_coverage,
              threshold |-> [nan |-> FALSE, v |-> threshold],
              concentration |->
                  Rat(Cardinality({idx \in 1..Len(sorted) :
                                      sorted[idx].overall_score > threshold}),
                      Len(sorted))]
        ELSE [outcome |-> "returned", expected_return |-> expected_coverage,
              threshold |-> [nan |-> FALSE, v |-> 1], concentration |-> <<1, 1>>]

\* calculator.df is used whole: no mask is applied
DistinctInit ==
    /\ CalcIdle
    /\ ObIdle
    /\ StudyIdle
    /\ LogIdle
    /\ df \in SeqsUpTo(PortfolioRows, 0, MaxPortfolioRows)
    /\ \A idx \in 1..Len(df) : df[idx].mask = 1
    /\ \E order \in ArgsortDescending([idx \in 1..Len(df) |-> df[idx].overall_score]) :
          evaluation = [outcome |-> "never", mask_column |-> None,
                        order |-> order, calls |-> <<>>]

CalculateDistinctConcentration ==
    /\ evaluation.calls = <<>>
    /\ \E expected_coverage \in ExpectedReturns :
          \E call \in {DistinctConcentration(SortedFrame, expected_coverage)} :
              evaluation' = [evaluation EXCEPT !.outcome = call.outcome,
                                               !.calls = Append(@, call)]
    /\ UNCHANGED <<calcVars, obVars, studyVars, logVars, df>>

DistinctNext == CalculateDistinctConcentration

SpecDistinct == DistinctInit /\ [][DistinctNext]_vars

\* C14: calculate_distinct_count_portfolio_concentration never returns a
\* concentration of 0: when the threshold is the maximum overall_score, so
\* that zero rows lie strictly above it, the returned concentration is 1.
C14_DistinctConcentrationIsNeverZero ==
    \A c \in 1..Len(evaluation.calls) :
        LET call == evaluation.calls[c]
        IN  call.outcome = "returned" =>
                /\ call.concentration # <<0, 1>>
                /\ NoRowAbove(call) => call.concentration = <<1, 1>>


----------------------------------------------------------------------------
(* Recovery from a damaged log (optimization/save_study.py,                *)
(* optimize_parallel.py)                                                   *)
(*                                                                         *)
(* paradance.log is a file on disk: it may not exist yet, and lines of it  *)
(* may be lost or garbled.  The drawn log is that of a sequential run,     *)
(* trial after trial, in which each of a trial's three lines is intact,    *)
(* unparsable or (targets, weights) missing.                               *)

GroupShapes ==
    [result : {"ok", "bad"}, targets : {"ok", "bad", "missing"},
     weights : {"ok", "bad", "missing"}, best : 0..(MaxTrials - 1)]

FieldLine(line, state) ==
    IF state = "missing" THEN <<>>
    ELSE IF state = "bad" THEN <<[line EXCEPT !.value = Unparsable]>>
    ELSE <<line>>

\* the lines trial n left in the log
GroupLines(n, g) ==
    FieldLine(ResultLine(n, n), g.result) \o FieldLine(TargetsLine(n), g.targets)
        \o FieldLine(WeightsLine(n), g.weights) \o <<CompletedLine(n, n, g.best)>>

RECURSIVE LogOf(_, _)
LogOf(groups, n) ==
    IF n >= Len(groups) THEN <<>>
    ELSE GroupLines(n, groups[n + 1]) \o LogOf(groups, n + 1)

\* the best trial named by trial n's completion line is a trial 0..n
DamagedLogs ==
    {groups \in SeqsUpTo(GroupShapes, 0, MaxTrials) :
        \A a \in 1..Len(groups) : groups[a].best < a}

RecoverInit ==
    /\ CalcIdle
    /\ ObIdle
    /\ StudyIdle
    /\ MetricIdle
    /\ workers = <<>>
    /\ storage = [next_number |-> 0, best |-> NoTrial]
    /\ best_trials_csv = Unset
    /\ \E file \in {"missing", "present"} :
          \E groups \in DamagedLogs :
              /\ file = "missing" => groups = <<>>
              /\ parallel_run = [state |-> "recovering", file |-> file,
                                 groups |-> groups, error |-> "none"]
              /\ lines = LogOf(groups, 0)

\* one round of the listener's while True loop: FileNotFoundError is caught,
\* any other exception ends the thread
ListenerRound ==
    /\ parallel_run.state \in {"recovering", "sleeping"}
    /\ IF parallel_run.file = "missing"
       THEN /\ parallel_run' = [parallel_run EXCEPT !.state = "sleeping"]
            /\ UNCHANGED best_trials_csv
       ELSE \E pass \in {ListenerPass(lines)} :
               /\ parallel_run' =
                     [parallel_run EXCEPT
                         !.state = IF pass.status = "ok" THEN "sleeping"
                                   ELSE "listener_died",
                         !.error = IF pass.status = "ok" THEN @ ELSE pass.status]
               /\ best_trials_csv' = IF pass.markers # {} THEN pass.data
                                     ELSE best_trials_csv
    /\ UNCHANGED <<calcVars, obVars, studyVars, metricVars, workers, storage, lines>>

\* optimize() calls build_logger: logging.FileHandler creates the log file
CreateLogFile ==
    /\ parallel_run.state \in {"recovering", "sleeping"}
    /\ parallel_run.file = "missing"
    /\ parallel_run' = [parallel_run EXCEPT !.file = "present"]
    /\ UNCHANGED <<calcVars, obVars, studyVars, metricVars, workers, storage, lines,
                   best_trials_csv>>

\* save_study.get_best_trials, run after optimize(): the pass has no
\* exception handler
EndOfRunPass ==
    /\ parallel_run.state \in {"recovering", "sleeping"}
    /\ parallel_run.file = "present"
    /\ \E pass \in {GetBestTrials(lines)} :
          IF pass.status = "ok"
          THEN /\ parallel_run' = [parallel_run EXCEPT !.state = "returned"]
               /\ best_trials_csv' = pass.data
          ELSE /\ parallel_run' = [parallel_run EXCEPT !.state = "raised",
                                                       !.error = pass.status]
               /\ UNCHANGED best_trials_csv
    /\ UNCHANGED <<calcVars, obVars, studyVars, metricVars, workers, storage, lines>>

RecoverNext == ListenerRound \/ CreateLogFile \/ EndOfRunPass

SpecRecover == RecoverInit /\ [][RecoverNext]_vars

\* the trials named by "Best is trial N" lines of the drawn log
BestEvents ==
    {parallel_run.groups[a].best : a \in 1..Len(parallel_run.groups)}

Intact(g) == g.result = "ok" /\ g.targets = "ok" /\ g.weights = "ok"

Complete(g) == g.targets # "missing" /\ g.weights # "missing"

EntriesOf(n) ==
    IF best_trials_csv = Unset THEN 0 ELSE EntriesFor(best_trials_csv, n)

\* C16: the recovery pass does not fail when the log file is missing or
\* partially written: a missing file is retried, and a best event whose
\* result line has no following "targets:" or "weights:" line is skipped
\* while the other best events of the log are recovered.
C16_MissingOrPartialLogIsTolerated ==
    (\A a \in 1..Len(parallel_run.groups) :
        /\ parallel_run.groups[a].result = "ok"
        /\ parallel_run.groups[a].targets # "bad"
        /\ parallel_run.groups[a].weights # "bad") =>
        /\ parallel_run.state \notin {"raised", "listener_died"}
        /\ parallel_run.state = "returned" =>
              \A n \in BestEvents :
                  EntriesOf(n) = IF Complete(parallel_run.groups[n + 1]) THEN 1 ELSE 0

\* C17: if a numeric field of a best event (its result, an element of its
\* targets or of its weights) cannot be parsed, the recovery pass drops that
\* event only and recovers every other best event; no exception ends it.
C17_UnparsableEventIsDropped ==
    (\A a \in 1..Len(parallel_run.groups) : Complete(parallel_run.groups[a])) =>
        /\ parallel_run.state \notin {"raised", "listener_died"}
        /\ parallel_run.state = "returned" =>
              \A n \in BestEvents :
                  EntriesOf(n) = IF Intact(parallel_run.groups[n + 1]) THEN 1 ELSE 0


----------------------------------------------------------------------------
(* The workers of optimize_run and their log files                         *)

\* worker w has appended a line to its log file
HasWritten(w) ==
    \/ workers[w].left < UnitTrials(parallel_run.n_trials, parallel_run.parallel)
    \/ workers[w].pc \in {"log_targets", "log_weights", "tell", "log_completed"}

\* C18: when optimize_run starts W parallel workers, each worker appends its
\* trial lines to its own private log file: no two workers ever write to the
\* same log file.
C18_WorkersWriteToPrivateFiles ==
    \A w1, w2 \in DOMAIN workers :
        (w1 # w2 /\ HasWritten(w1) /\ HasWritten(w2)) =>
            workers[w1].log_filename # workers[w2].log_filename

\* the trials the workers have been handed in total
TrialsHandedOut ==
    SeqSum([w \in DOMAIN workers |->
               UnitTrials(parallel_run.n_trials, parallel_run.parallel)])

\* C19: optimize_run(n_trials = N, parallel = W) runs N trials in total: the
\* per-worker trial counts sum to N, for every N >= 1 and W >= 1, also when
\* N is not divisible by W or N < W; stated of a finished optimize_run.
C19_TrialCountsSumToN ==
    parallel_run.state \in {"returned", "raised"} =>
        /\ TrialsHandedOut = parallel_run.n_trials
        /\ storage.next_number = parallel_run.n_trials


----------------------------------------------------------------------------
(* Building a Calculator and a MultipleObjective, then the first trial     *)
(* (evaluation/calculator.py, optimization/multiple_objective.py,          *)
(* construct_weights.py)                                                   *)

\* the free-style settings of FreeStyleVariants, and base weights whose
\* lower bound (1 - ratio) * w exceeds the upper bound (1 + ratio) * w
BoundVariants(o) ==
    FreeStyleVariants(o)
    \cup {[o EXCEPT !.base_weights = [i \in 1..o.weights_num |-> <<-1, 1>>]]}

\* Calculator(df, columns, equation_type, equation_eval_str, equation_json)
\* and the MultipleObjective arguments, before anything is built
BuildConfigs ==
    {o @@ [equation_eval_str |-> formula, equation_json |-> json,
           stage |-> "start"] :
        o \in UNION {BoundVariants(DefaultObjective(eq, n)) :
                        eq \in {"free_style", "json"}, n \in 1..MaxWeights},
        formula \in {None, "formula"}, json \in {None, "empty", "formula"}}

ConfigInit ==
    /\ CalcIdle
    /\ StudyIdle
    /\ LogIdle
    /\ MetricIdle
    /\ ob \in BuildConfigs
    /\ NoEvaluators
    /\ trial = NoTrial

\* Calculator.__init__: JSONFormula(**equation_json) is built when
\* equation_json is not None, and its validator rejects an empty formula;
\* equation_type and equation_eval_str are stored as given
BuildCalculator ==
    /\ ob.stage = "start"
    /\ ob' = [ob EXCEPT !.stage = IF ob.equation_json = "empty"
                                  THEN "raised" ELSE "calculator"]
    /\ UNCHANGED <<calcVars, evaluatorVars, trial, studyVars, logVars, metricVars>>

\* MultipleObjective.__init__: the configuration is copied to attributes
BuildObjective ==
    /\ ob.stage = "calculator"
    /\ ob' = [ob EXCEPT !.stage = "objective"]
    /\ UNCHANGED <<calcVars, evaluatorVars, trial, studyVars, logVars, metricVars>>

\* get_overall_score for a free_style or json calculator: "ValueError" for a
\* free_style calculator with equation_eval_str None, "AttributeError" for a
\* json calculator built without equation_json (the attribute was never set)
OverallScoreError(o) ==
    IF o.equation_type = "free_style"
    THEN (IF o.equation_eval_str = None THEN "ValueError" ELSE "none")
    ELSE IF o.equation_type = "json" /\ o.equation_json = None
    THEN "AttributeError"
    ELSE "none"

\* objective(trial) of the first trial: construct_weights, get_overall_score
FirstTrial ==
    /\ ob.stage = "objective"
    /\ trial = NoTrial
    /\ IF ConstructWeights(ob) = {}
       THEN trial' = [outcome |-> "raised", raised_in |-> "construct_weights",
                      error |-> "ValueError"]
       ELSE IF OverallScoreError(ob) # "none"
       THEN trial' = [outcome |-> "raised", raised_in |-> "get_overall_score",
                      error |-> OverallScoreError(ob)]
       ELSE \E b \in ConstructWeights(ob) :
               trial' = [outcome |-> "returned", raised_in |-> "nothing",
                         error |-> "none"]
    /\ UNCHANGED <<calcVars, ob, evaluatorVars, studyVars, logVars, metricVars>>

ConfigNext == BuildCalculator \/ BuildObjective \/ FirstTrial

SpecConfig == ConfigInit /\ [][ConfigNext]_vars

\* the structural misconfigurations of the claim
Misconfigured(o) ==
    \/ o.equation_type = "free_style" /\ o.equation_eval_str = None
    \/ o.equation_type = "json" /\ o.equation_json # "formula"
    \/ o.base_weights = NoList /\ o.free_style_bounds = "mixed"
    \/ /\ o.base_weights # NoList
       /\ \E i \in 1..Len(o.base_weights) : RatLt(o.base_weights[i], <<0, 1>>)

\* C20: a structural misconfiguration (a free_style calculator with no
\* formula string, a json calculator with no formula, free-style bounds
\* given as one scalar and one list, a base weight that makes the lower
\* bound exceed the upper bound) raises while the Calculator or the
\* MultipleObjective is built; no such error is first raised inside a trial.
C20_MisconfigurationRaisesAtBuild ==
    /\ ob.stage = "objective" => ~Misconfigured(ob)
    /\ trial # NoTrial => trial.outcome # "raised"

----------------------------------------------------------------------------
(* The best-trial CSV during a run (optimization/optimize_parallel.py)     *)
(*                                                                         *)
(* optimize_run starts the listener thread before the workers; the thread  *)
(* rewrites paradance_best_trials.csv in every pass that records a marker, *)
(* and save_study writes it once more after the workers joined.            *)

\* some worker of the run still has a trial to run or to finish
TrialsRunning == \E w \in DOMAIN workers : workers[w].pc # "done"

\* C21: during one optimize_run the best-trial history CSV is written once,
\* after all workers have finished; it is never written while trials are
\* still running, so the file does not exist while a worker is at work.
C21_CsvWrittenOnlyAfterWorkersFinished ==
    TrialsRunning => best_trials_csv = Unset

----------------------------------------------------------------------------
(* Simplex mode and the power lower bound                                  *)
(* (optimization/construct_weights.py, multiple_objective.py)              *)

\* a trial's power weights hold the output of the simplex loop: the loop
\* suggested a parameter w_po_i, or appended the last component 1 - sum
SimplexExecuted(t) ==
    \/ \E i \in 1..Len(t.params) : t.params[i][1] = "w_po_"
    \/ Len(t.power) > ob.weights_num

\* C22: if the configured power lower bound is negative, simplex mode is
\* off: a trial of an objective built with dirichlet and a negative
\* power_lower_bound never runs the simplex (dirichlet) construction in
\* construct_power_weights.
C22_NegativeLowerBoundDisablesSimplex ==
    (TrialBuiltWeights /\ ob.dirichlet
        /\ trial.path \in {"power", "power+first_order"}
        /\ RatLt(ob.power_lower_bound, <<0, 1>>)) =>
        ~SimplexExecuted(trial)

----------------------------------------------------------------------------
(* The scale ratio of first-order weights                                  *)
(* (optimization/construct_weights.py)                                     *)

\* the scale-normalized weights w_i * 10^(-value_scale_i)
ScaleNormalized(first_order_weights, value_scales) ==
    [i \in 1..Len(first_order_weights) |->
        RatMul(first_order_weights[i], Pow10(-value_scales[i]))]

\* the quotient a / b of two positive rationals, common factors cancelled
\* before the products are taken
RatRatio(a, b) ==
    LET g == Gcd(a[1], b[1])
        h == Gcd(a[2], b[2])
    IN  Rat((a[1] \div g) * (b[2] \div h), (a[2] \div h) * (b[1] \div g))

\* C23: when max_min_scale_ratio = R is configured, the scale-aware
\* first-order weights returned by construct_first_order_weights have
\* max_i(w_i * 10^(-value_scale_i)) / min_i(w_i * 10^(-value_scale_i)) <= R,
\* for every set of suggested weights.
C23_ScaleRatioIsCapped ==
    (TrialBuiltWeights
        /\ trial.path \in {"first_order", "power+first_order"}
        /\ ob.first_order_with_scales
        /\ ob.max_min_scale_ratio # NoFloat) =>
        LET normalized == ScaleNormalized(trial.first_order, ob.value_scales)
        IN  \A i, j \in 1..Len(normalized) :
                RatLe(RatRatio(normalized[i], normalized[j]),
                      ob.max_min_scale_ratio)

----------------------------------------------------------------------------
(* Rank correlation (evaluation/tau_evaluator.py)                          *)
(*                                                                         *)
(* A dataframe is a sequence of rows; a row is a record whose fields are   *)
(* the columns.  Kendall's tau-b of two sequences is the surd               *)
(* num / sqrt(den2): num the concordant minus the discordant pairs, den2   *)
(* the product of the untied pair counts of the two sequences; it is nan   *)
(* when every pair of one sequence is tied.  The value calculate_tau       *)
(* returns is shift + scale * tau.                                         *)

MaxTauRows == 3       \* dataframes have 1..MaxTauRows rows

MaxTauCalls == 2      \* calculate_tau calls on one calculator

DefaultNumBins == 100

\* np.sort of a sequence of numbers
RECURSIVE SortAscending(_)
SortAscending(s) ==
    IF s = <<>> THEN <<>>
    ELSE LET i == CHOOSE k \in 1..Len(s) : \A j \in 1..Len(s) : s[k] <= s[j]
         IN  <<s[i]>> \o SortAscending(SubSeq(s, 1, i - 1) \o SubSeq(s, i + 1, Len(s)))

\* map_to_bins(data, num_bins): equal-frequency bins of the non-zero
\* entries, zeros in bin 0.  Edge k of the num_bins - 1 inner quantiles
\* k / num_bins is np.quantile's linear interpolation at position
\* k * (m - 1) / num_bins of the sorted non-zero data, held times num_bins;
\* np.digitize counts the edges that are <= the value.
MapToBins(data, num_bins) ==
    IF Len(data) = 0 THEN <<>>
    ELSE IF \A i \in 1..Len(data) : data[i] = 0 THEN [i \in 1..Len(data) |-> 0]
    ELSE LET non_zero_data == SortAscending(SelectSeq(data, LAMBDA x : x # 0))
             m == Len(non_zero_data)
             bins == Min2(num_bins, m)
             Quantile(k) ==
                 LET below == (k * (m - 1)) \div bins
                     part == (k * (m - 1)) % bins
                 IN  IF part = 0 THEN bins * non_zero_data[below + 1]
                     ELSE bins * non_zero_data[below + 1]
                          + part * (non_zero_data[below + 2] - non_zero_data[below + 1])
             Digitize(x) == Cardinality({k \in 1..(bins - 1) : Quantile(k) <= bins * x})
         IN  [i \in 1..Len(data) |->
                 IF data[i] = 0 THEN 0 ELSE Digitize(data[i]) + 1]

Sign(x) == IF x > 0 THEN 1 ELSE IF x < 0 THEN -1 ELSE 0

\* scipy.stats.kendalltau(x, y)[0], variant b
KendallTau(x, y) ==
    LET size == Len(x)
        pairs == {p \in (1..size) \X (1..size) : p[1] < p[2]}
        tot == (size * (size - 1)) \div 2
        xtie == Cardinality({p \in pairs : x[p[1]] = x[p[2]]})
        ytie == Cardinality({p \in pairs : y[p[1]] = y[p[2]]})
        Concordance(p) == Sign(x[p[1]] - x[p[2]]) * Sign(y[p[1]] - y[p[2]])
        con == Cardinality({p \in pairs : Concordance(p) > 0})
        dis == Cardinality({p \in pairs : Concordance(p) < 0})
    IN  IF size = 0 \/ xtie = tot \/ ytie = tot
        THEN [nan |-> TRUE, num |-> 0, den2 |-> 1]
        ELSE [nan |-> FALSE, num |-> con - dis,
              den2 |-> (tot - xtie) * (tot - ytie)]

TauColumn(rows, column) ==
    [i \in 1..Len(rows) |->
        CASE column = "target" -> rows[i].target
          [] column = "overall_score" -> rows[i].overall_score
          [] column = "target_bin" -> rows[i].target_bin]

\* calculator.df[f"{target_column}_bin"] = label_bins
WithBinColumn(rows, label_bins) ==
    [i \in 1..Len(rows) |->
        [group |-> rows[i].group, target |-> rows[i].target,
         overall_score |-> rows[i].overall_score, target_bin |-> label_bins[i]]]

\* calculator.df.groupby(groupby).apply(kendalltau of the bin column and the
\* raw overall_score): one tau per group, in key order
GroupedTau(rows) ==
    LET keys == GroupKeys(rows)
    IN  [i \in 1..Len(keys) |->
            KendallTau(TauColumn(GroupRows(rows, keys[i]), "target_bin"),
                       TauColumn(GroupRows(rows, keys[i]), "overall_score"))]

NoTau == [nan |-> TRUE, num |-> 0, den2 |-> 0]

\* tau * 0.5 + 0.5
NormalizedTau(tau) == [outcome |-> "returned", error |-> "none", nan |-> tau.nan, shift |-> <<1, 2>>, scale |-> <<1, 2>>, tau |-> tau]

\* calculate_tau(calculator, target_column, groupby, weights_for_groups,
\* num_bins): the value returned or the error raised, the dataframe and the
\* bin mapping it leaves.  With a group column the mean of the grouped taus
\* is bound to the local tau and normalized_tau is never bound: the return
\* statement raises UnboundLocalError.
CalculateTauResult(rows, bin_mappings, groupby, num_bins) ==
    LET bins == IF num_bins = NoNumber THEN DefaultNumBins ELSE num_bins
        label_bins == IF bin_mappings # NoList THEN bin_mappings
                      ELSE MapToBins(TauColumn(rows, "target"), bins)
    IN  IF groupby # None
        THEN [result |-> [outcome |-> "raised", error |-> "UnboundLocalError",
                          nan |-> TRUE, shift |-> <<0, 1>>, scale |-> <<0, 1>>,
                          tau |-> NoTau],
              grouped |-> GroupedTau(WithBinColumn(rows, label_bins)),
              df |-> WithBinColumn(rows, label_bins),
              bin_mappings |-> label_bins]
        ELSE [result |-> NormalizedTau(
                  KendallTau(label_bins,
                             MapToBins(TauColumn(rows, "overall_score"), bins))),
              grouped |-> <<>>,
              df |-> rows,
              bin_mappings |-> label_bins]

TauRows == [group : 1..2, target : 0..2, overall_score : 0..2]

NumBins == {NoNumber, 1, 2}    \* the drawn hyperparameters: None, 1, 2

TauInit ==
    /\ CalcIdle
    /\ ObIdle
    /\ StudyIdle
    /\ LogIdle
    /\ df \in SeqsUpTo(TauRows, 1, MaxTauRows)
    /\ \E num_bins \in NumBins :
          evaluation = [outcome |-> "never", error |-> "none", nan |-> TRUE,
                        shift |-> <<0, 1>>, scale |-> <<0, 1>>, tau |-> NoTau,
                        evaluator |-> "tau", calls |-> 0, groupby |-> None,
                        num_bins |-> num_bins, bin_mappings |-> NoList,
                        grouped |-> <<>>]

\* calculator.calculate_tau(groupby=..., target_column=..., num_bins=...)
CalculateTau ==
    /\ evaluation.evaluator = "tau"
    /\ evaluation.calls < MaxTauCalls
    /\ \E groupby \in {None, "group"} :
          \E call \in {CalculateTauResult(df, evaluation.bin_mappings, groupby,
                                          evaluation.num_bins)} :
             /\ df' = call.df
             /\ evaluation' = call.result @@
                    [evaluator |-> "tau", calls |-> evaluation.calls + 1,
                     groupby |-> groupby, num_bins |-> evaluation.num_bins,
                     bin_mappings |-> call.bin_mappings,
                     grouped |-> call.grouped]
    /\ UNCHANGED <<calcVars, obVars, studyVars, logVars>>

TauNext == CalculateTau

SpecTau == TauInit /\ [][TauNext]_vars

\* num / sqrt(den2) <= c for a rational c
SurdLe(num, den2, c) ==
    IF c[1] >= 0
    THEN num <= 0 \/ num * num * c[2] * c[2] <= c[1] * c[1] * den2
    ELSE num < 0 /\ num * num * c[2] * c[2] >= c[1] * c[1] * den2

\* 0 <= shift + scale * tau <= 1, for a positive scale
InUnitInterval(v) ==
    /\ ~v.nan
    /\ SurdLe(v.tau.num, v.tau.den2, RatDiv(RatSub(<<1, 1>>, v.shift), v.scale))
    /\ SurdLe(-v.tau.num, v.tau.den2, RatDiv(v.shift, v.scale))

\* C24: calculate_tau returns a rank-correlation value normalized into
\* [0,1] for every call, both when a group column is given and when it is
\* not.
C24_TauIsNormalized ==
    (evaluation.outcome # "never" /\ evaluation.evaluator = "tau") =>
        /\ evaluation.outcome = "returned"
        /\ InUnitInterval(evaluation)

----------------------------------------------------------------------------
(* Free-style formulas (evaluation/base_calculator.py, calculator.py)      *)
(*                                                                         *)
(* get_overall_score evaluates equation_eval_str with the names weights,   *)
(* columns, sum, max and min; columns is the list of the numpy arrays      *)
(* selected_values[:, i].  A value of the evaluation is a record: its      *)
(* Python type and its elements.  A formula is a record: the function      *)
(* applied to columns[0] and the bound c, or the product                   *)
(* weights[0] * columns[0].                                                *)

MaxFreeRows == 2      \* rows of the drawn free-style datasets

MaxBound == 3         \* column values and bounds c are 1..MaxBound

ClipUpper == 2

Array(values) == [type |-> "ndarray", v |-> values]

Series(values) == [type |-> "Series", v |-> values]

Number(c) == [type |-> "number", v |-> <<c>>]

NoneResult == [type |-> "None", v |-> <<>>]

Max2(a, b) == IF a >= b THEN a ELSE b

\* Series.clip(lower=bound)
ClipLower(series, bound) == Series([i \in 1..Len(series.v) |-> Max2(series.v[i], bound.v[1])])

\* BaseCalculator.clip_max(que_a, que_b): clips the argument that is a
\* pd.Series; returns None when neither argument is one
ClipMax(que_a, que_b) ==
    IF que_a.type = "Series" THEN ClipLower(que_a, que_b)
    ELSE IF que_b.type = "Series" THEN ClipLower(que_b, que_a)
    ELSE NoneResult

\* BaseCalculator.clip_min(que_a, que_b): pd.Series(que_a).clip(upper=2)
ClipMin(que_a, que_b) == Series([i \in 1..Len(que_a.v) |-> Min2(que_a.v[i], ClipUpper)])

\* initialize_local_dict and eval(equation_eval_str, ...): the value of the
\* formula, of type "IndexError" when weights[0] does not exist
EvalFreeStyle(formula, weights, columns) ==
    CASE formula.fn = "max" -> ClipMax(Array(columns[1]), Number(formula.c))
      [] formula.fn = "max_swapped" -> ClipMax(Number(formula.c), Array(columns[1]))
      [] formula.fn = "min" -> ClipMin(Array(columns[1]), Number(formula.c))
      [] formula.fn = "weights" ->
            IF Len(weights) = 0 THEN [type |-> "IndexError", v |-> <<>>]
            ELSE Array([i \in 1..Len(columns[1]) |-> weights[1] * columns[1][i]])

\* self.df["overall_score"] = value, for a dataframe with the default index:
\* None fills the column with None, an array or a Series gives its elements
AssignColumn(value, rows) ==
    IF value.type = "None" THEN [r \in 1..rows |-> NoneValue]
    ELSE [r \in 1..rows |-> Float(value.v[r])]

FreeFormulas ==
    {[fn |-> fn, c |-> c] : fn \in {"max", "max_swapped", "min"}, c \in 1..MaxBound}
    \cup {[fn |-> "weights", c |-> 0]}

FreeInit ==
    /\ ObIdle
    /\ StudyIdle
    /\ LogIdle
    /\ MetricIdle
    /\ equation_type = "free_style"
    /\ selected_values \in
          {[r \in 1..Len(column) |-> <<column[r]>>] :
              column \in SeqsUpTo(1..MaxBound, 1, MaxFreeRows)}
    /\ overall_score = Unset
    /\ score_call = [weights |-> <<>>, outcome |-> "never"]
    /\ selected_columns = ColumnNames(1)
    /\ equation_json = <<>>
    /\ equation_eval_str \in FreeFormulas

\* get_overall_score, lines 97-107: the free_style branch
FreeGetOverallScore(w) ==
    /\ ScoreBranch(equation_type, Len(selected_columns), w) = "free_style"
    /\ LET columns == [c \in 1..Len(selected_columns) |->
                          [r \in 1..Len(selected_values) |-> selected_values[r][c]]]
       IN  \E value \in {EvalFreeStyle(equation_eval_str, w, columns)} :
              IF value.type = "IndexError"
              THEN /\ score_call' = [weights |-> w, outcome |-> "raised"]
                   /\ UNCHANGED overall_score
              ELSE /\ score_call' = [weights |-> w, outcome |-> "returned"]
                   /\ overall_score' = AssignColumn(value, Len(selected_values))
    /\ UNCHANGED <<equation_type, selected_values, selected_columns,
                   equation_json, equation_eval_str, obVars, studyVars, logVars,
                   metricVars>>

FreeWeights == {<<>>, <<1>>, <<2>>, <<1, 1>>}

FreeNext ==
    /\ score_call.outcome = "never"
    /\ \E w \in FreeWeights : FreeGetOverallScore(w)

SpecFree == FreeInit /\ [][FreeNext]_vars

\* C25: in a free-style formula max and min are clipped max/min over the
\* per-column value arrays: max(col, c) gives col with every element raised
\* to at least c, and min(col, c) gives col with every element lowered to at
\* most c, for every bound c.
C25_ClippedMinMax ==
    (equation_type = "free_style" /\ score_call.outcome = "returned") =>
        \A r \in 1..Len(selected_values) :
            LET x == selected_values[r][1]
                c == equation_eval_str.c
            IN  /\ equation_eval_str.fn \in {"max", "max_swapped"} =>
                      overall_score[r] = Float(Max2(x, c))
                /\ equation_eval_str.fn = "min" =>
                      overall_score[r] = Float(Min2(x, c))

----------------------------------------------------------------------------
(* The evaluators and the calculator's dataset                             *)

\* the columns of the dataframes TauInit draws
TauColumns == {"group", "target", "overall_score"}

\* C26: evaluating a metric leaves the calculator's dataset unchanged: no
\* evaluator adds, removes or overwrites a column of calculator.df (working
\* columns are added only to a copy), so after any number of calculate_tau
\* calls every row of calculator.df has the columns it was built with.
C26_EvaluatorsLeaveDatasetUnchanged ==
    evaluation.evaluator = "tau" =>
        \A i \in 1..Len(df) : DOMAIN df[i] = TauColumns

----------------------------------------------------------------------------
(* The calls evaluate_targets makes (optimization/evaluate_targets.py)     *)

\* every registered flag is one the if/elif chain of evaluate_targets names
AllDispatched == \A i \in 1..Len(evaluator_flags) : evaluator_flags[i] \in EvaluatorFlags

\* C27: for every flag that evaluate_targets dispatches, evaluating a
\* registered evaluator of that flag on a scored dataset completes without
\* raising and appends one value to targets: when every registered flag is
\* a dispatched one, objective(trial) returns and targets has one value per
\* evaluator.
C27_DispatchedEvaluatorsReturnAValue ==
    (trial # NoTrial /\ AllDispatched) =>
        /\ trial.outcome = "returned"
        /\ Len(trial.targets) = Len(evaluator_flags)

----------------------------------------------------------------------------
(* Repeated scoring (evaluation/calculator.py)                             *)
(*                                                                         *)
(* evaluate_custom_weights calls get_overall_score once per trial on the   *)
(* same calculator: the overall_score column a call finds is the one the   *)
(* last call that assigned it left.                                        *)

\* get_overall_score(w) on a calculator that may have been scored before
RescoreNext == \E w \in WeightInputs(NumColumns) : GetOverallScore(w)

SpecRescore == CalcInit /\ [][RescoreNext]_vars

\* the score of weight vector w on one row, where the equation type defines
\* one for a vector of this length
HasScore(eq, n, w) ==
    \/ eq = "product" /\ Len(w) \in {n, 2 * n}
    \/ eq = "sum" /\ Len(w) = n

RowScore(eq, row, w) ==
    LET n == Len(row)
    IN  IF eq = "sum" THEN SeqSum([c \in 1..n |-> row[c] * w[c]])
        ELSE IF Len(w) = n THEN PowerProduct(row, w, n)
        ELSE OffsetPowerProduct(row, w, n, n)

\* C28: every call get_overall_score(w) either overwrites the overall_score
\* column with the score of w or raises; it never returns normally leaving
\* the overall_score of an earlier weight vector in place, for any equation
\* type and any length of w.
C28_ScoreIsOfTheCurrentWeights ==
    score_call.outcome = "returned" =>
        /\ HasScore(equation_type, NumColumns, score_call.weights)
        /\ \A r \in 1..Len(selected_values) :
              overall_score[r] =
                  RowScore(equation_type, selected_values[r], score_call.weights)

----------------------------------------------------------------------------
(* The merge of merge_and_count (evaluation/inverse_pair_evaluator.py)     *)

\* the two rows hold the same values the same number of times
SameMultiset(a, b) ==
    /\ Len(a) = Len(b)
    /\ \A v \in ScoreValues :
          Cardinality({i \in 1..Len(a) : a[i] = v})
              = Cardinality({i \in 1..Len(b) : b[i] = v})

\* C29: for every input of length n >= 1,
\* merge_and_count(target_queue, temporary_queue, 0, n, weight_type)
\* terminates without error and leaves each row of target_queue a
\* non-increasing rearrangement (same multiset of values) of that row's
\* input, including lengths that are not a power of two and merges in which
\* the right run is exhausted before the left run.
C29_MergeSortsEveryRow ==
    (evaluation.outcome # "never" /\ "target_queue" \in DOMAIN evaluation) =>
        /\ evaluation.outcome = "returned"
        /\ NonIncreasing(evaluation.target_queue)
        /\ SameMultiset(evaluation.target_queue, evaluation.sorted_target_scores)

----------------------------------------------------------------------------
(* Substitution of the context in safe_eval                                *)
(* (evaluation/calculate_json_formula.py)                                  *)
(*                                                                         *)
(* One column whose name is drawn, and one-stage formulas that apply a     *)
(* function of the eval namespace to it.                                   *)

Text(name) ==
    CASE name = "max" -> <<"m", "a", "x">>
      [] name = "min" -> <<"m", "i", "n">>
      [] name = "abs" -> <<"a", "b", "s">>
      [] name = "weights[0]" -> <<"w", "e", "i", "g", "h", "t", "s", "[", "0", "]">>

\* the drawn column names
SubstColumns == {<<"x">>, <<"a">>, <<"n">>, <<"y">>}

\* the drawn formulas over column c
SubstFormulas(c) ==
    { << Stage(<<"r">>, Text("max") \o <<"(">> \o c \o <<",", "1", ")">>) >>,
      << Stage(<<"r">>, Text("min") \o <<"(">> \o c \o <<",", "1", ")">>) >>,
      << Stage(<<"r">>, Text("abs") \o <<"(">> \o c \o <<")">>) >>,
      << Stage(<<"r">>, c \o <<"*">> \o Text("weights[0]")) >> }

SubstInit ==
    /\ ObIdle
    /\ StudyIdle
    /\ LogIdle
    /\ MetricIdle
    /\ equation_type = "json"
    /\ \E c \in SubstColumns :
          /\ selected_columns = <<c>>
          /\ equation_json \in SubstFormulas(c)
    /\ equation_eval_str = None
    /\ selected_values \in JsonFrames
    /\ overall_score = Unset
    /\ score_call = [weights |-> <<>>, outcome |-> "never"]

SubstNext == JsonNext

SpecSubst == SubstInit /\ [][SubstNext]_vars

Letters ==
    {"a", "b", "c", "d", "e", "f", "g", "h", "i", "j", "k", "l", "m", "n", "o",
     "p", "q", "r", "s", "t", "u", "v", "w", "x", "y", "z", "_"}

\* the length of the longest prefix of text made of characters of the kind:
\* a name (letters and digits) or a numeric literal (digits, letters, ".")
RECURSIVE RunLength(_, _)
RunLength(text, kind) ==
    IF text = <<>> THEN 0
    ELSE IF text[1] \in Letters \/ IsDigit(text[1]) \/ (kind = "number" /\ text[1] = ".")
    THEN 1 + RunLength(Tail(text), kind)
    ELSE 0

\* the length of a subscript "[digits]" at the head of text, 0 if none
SubscriptLength(text) ==
    IF text = <<>> \/ text[1] # "[" THEN 0
    ELSE LET digits == RunLength(Tail(text), "name")
         IN  IF digits > 0 /\ Len(text) >= digits + 2 /\ text[digits + 2] = "]"
             THEN digits + 2 ELSE 0

\* the expression with the value of each context variable in the place of
\* the variable's name where the name is a complete identifier (with its
\* subscript, for weights[i]); names of functions, other names and numeric
\* literals are left as they are
RECURSIVE IdentifierSubstitute(_, _)
IdentifierSubstitute(text, context) ==
    IF text = <<>> THEN <<>>
    ELSE IF IsDigit(text[1])
    THEN LET n == RunLength(text, "number")
         IN  SubSeq(text, 1, n) \o IdentifierSubstitute(SubSeq(text, n + 1, Len(text)), context)
    ELSE IF text[1] \in Letters
    THEN LET n == RunLength(text, "name")
             m == n + SubscriptLength(SubSeq(text, n + 1, Len(text)))
             keys == Range(Keys(context))
         IN  IF SubSeq(text, 1, m) \in keys
             THEN Str(Get(context, SubSeq(text, 1, m)))
                  \o IdentifierSubstitute(SubSeq(text, m + 1, Len(text)), context)
             ELSE IF SubSeq(text, 1, n) \in keys
             THEN Str(Get(context, SubSeq(text, 1, n)))
                  \o IdentifierSubstitute(SubSeq(text, n + 1, Len(text)), context)
             ELSE SubSeq(text, 1, n)
                  \o IdentifierSubstitute(SubSeq(text, n + 1, Len(text)), context)
    ELSE <<text[1]>> \o IdentifierSubstitute(Tail(text), context)

\* C30: in safe_eval the value of a context variable replaces the
\* variable's name only where the name occurs as a complete identifier of
\* the expression: a variable whose name is a substring of another name or
\* of a whitelisted function name (max, min, abs) leaves that text intact,
\* so the text evaluated for a row is the expression with its identifiers
\* replaced, and the row's score is the value of that text.
C30_OnlyCompleteIdentifiersAreReplaced ==
    score_call.outcome # "never" =>
        \A r \in 1..Len(selected_values) :
            LET context == Merge(RowDict(selected_columns, selected_values[r]),
                                 TuningWeights(score_call.weights))
                expression == equation_json[1].value
                replaced == IdentifierSubstitute(expression, context)
                value == PyEval(replaced)
            IN  /\ Substitute(expression, context, SortedKeys(context)) = replaced
                /\ overall_score[r] = IF value.ok THEN Float(value.val) ELSE NoneValue

====
